---- MODULE Spec2Model ----
(***************************************************************************)
(* Model of the PostgreSQL release-notes processor (scraper/execute.ts):   *)
(* the commands process, format, cve and update-links acting on the cache  *)
(* directory and on the two JSON files release_notes.json and              *)
(* release_notes_formatted.json.                                           *)
(*                                                                         *)
(* Text is modelled by TLA+ strings; the JavaScript string methods the     *)
(* code uses (includes, toLowerCase, startsWith, endsWith, indexOf, split, *)
(* trim, slice) are operators over them, computed character by character.  *)
(***************************************************************************)
EXTENDS FiniteSets, Integers, Sequences, TLC

(***************************************************************************)
(* JavaScript string methods                                               *)
(***************************************************************************)

\* s[i] (1-based), the one-character string at position i
CharAt(s, i) == SubSeq(s, i, i)

\* String.prototype.slice(from) with a 0-based from, as a 1-based suffix
Slice(s, from) == SubSeq(s, from, Len(s))

\* String.prototype.startsWith
StartsWith(s, p) == Len(p) <= Len(s) /\ SubSeq(s, 1, Len(p)) = p

\* String.prototype.endsWith
EndsWith(s, p) == Len(p) <= Len(s) /\ SubSeq(s, Len(s) - Len(p) + 1, Len(s)) = p

\* String.prototype.includes
Includes(s, w) == \E i \in 1..(Len(s) - Len(w) + 1) : SubSeq(s, i, i + Len(w) - 1) = w

\* the least element of a non-empty set of integers
Min(S) == CHOOSE i \in S : \A j \in S : i <= j

\* the greatest element of a non-empty set of integers
Max(S) == CHOOSE i \in S : \A j \in S : j <= i

\* the 1-based positions at which w occurs in s
Occurrences(s, w) ==
    {i \in 1..(Len(s) - Len(w) + 1) : SubSeq(s, i, i + Len(w) - 1) = w}

\* 1-based position of the first occurrence of w in s at or after from, 0 if none
IndexFrom(s, w, from) ==
    LET at == {i \in Occurrences(s, w) : i >= from}
    IN  IF at = {} THEN 0 ELSE Min(at)

\* String.prototype.indexOf, 1-based, 0 for JavaScript's -1
IndexOf(s, w) == IndexFrom(s, w, 1)

UpperLetters == "ABCDEFGHIJKLMNOPQRSTUVWXYZ"
LowerLetters == "abcdefghijklmnopqrstuvwxyz"

LowerChar(c) ==
    LET i == IndexOf(UpperLetters, c)
    IN  IF i = 0 THEN c ELSE CharAt(LowerLetters, i)

\* String.prototype.toLowerCase, halving the string to map each character
RECURSIVE ToLowerCase(_)
ToLowerCase(s) ==
    IF s = "" THEN ""
    ELSE IF Len(s) = 1 THEN LowerChar(s)
    ELSE ToLowerCase(SubSeq(s, 1, Len(s) \div 2))
         \o ToLowerCase(SubSeq(s, Len(s) \div 2 + 1, Len(s)))

IsSpace(c) == c = " " \/ c = "\n" \/ c = "\t"

\* String.prototype.trim: from the first to the last non-space character
Trim(s) ==
    LET solid == {i \in 1..Len(s) : ~IsSpace(CharAt(s, i))}
    IN  IF solid = {} THEN "" ELSE SubSeq(s, Min(solid), Max(solid))

\* String.prototype.split(sep) for a non-empty separator: the pieces in order
RECURSIVE Split(_, _)
Split(s, sep) ==
    LET i == IndexOf(s, sep)
    IN  IF i = 0 THEN <<s>>
        ELSE <<SubSeq(s, 1, i - 1)>> \o Split(Slice(s, i + Len(sep)), sep)

(***************************************************************************)
(* categorizeChanges                                                       *)
(***************************************************************************)

SecurityWords == <<"cve">>

PerformanceWords ==
    <<"performance", "speed", "faster", "optimization", "improve", "reduce",
      "enhance", "boost", "accelerate", "better", "efficient">>

BugWords ==
    <<"fix", "issue", "crash", "overflow", "error", "bug", "problem", "flaw",
      "mistake", "patch", "repair", "resolve">>

FeatureWords ==
    <<"new feature", "added", "introduced", "now supports", "new option",
      "new parameter", "new setting", "new command", "new function",
      "new syntax", "new capability", "new behavior", "new flag",
      "new directive", "new method", "new property", "new API",
      "new interface", "new class", "new module", "new package", "new library",
      "new framework", "new tool", "new utility", "new plugin", "new extension",
      "new integration", "new support", "new compatibility", "new standard",
      "new protocol", "new format", "new language", "new technology",
      "new system", "new service", "new application", "new feature",
      "new enhancement", "new improvement", "new addition", "new change",
      "new update", "new upgrade", "new version">>

\* the keyword table in the order the specification gives the tests
keywords_FeaturesBeforeBugs ==
    << [category |-> "security", words |-> SecurityWords],
       [category |-> "performance", words |-> PerformanceWords],
       [category |-> "features", words |-> FeatureWords],
       [category |-> "bugs", words |-> BugWords] >>

\* the keyword table, in the insertion order Object.entries iterates it
keywords ==
    << [category |-> "security", words |-> SecurityWords],
       [category |-> "performance", words |-> PerformanceWords],
       [category |-> "bugs", words |-> BugWords],
       [category |-> "features", words |-> FeatureWords] >>

\* words.some((word) => lowerChange.includes(word))
SomeWord(words, lowerChange) ==
    \E k \in 1..Len(words) : Includes(lowerChange, words[k])

\* a keyword loop without the gate
GateBreaks_Never(category, is_major) == FALSE

\* the gate that ends the keyword loop for a point release
GateBreaks(category, is_major) ==
    ~is_major /\ (category = "features" \/ category = "performance")

\* the for..of loop over the keyword table from entry k on: the category the
\* change is pushed to, or "" when the loop ends with categorized = false
RECURSIVE KeywordLoop(_, _, _)
KeywordLoop(lowerChange, is_major, k) ==
    IF k > Len(keywords) THEN ""
    ELSE IF GateBreaks(keywords[k].category, is_major) THEN ""
    ELSE IF SomeWord(keywords[k].words, lowerChange) THEN keywords[k].category
    ELSE KeywordLoop(lowerChange, is_major, k + 1)

\* a forEach body without the fallback push
CategoryOf_NoFallback(change, is_major) ==
    KeywordLoop(ToLowerCase(change), is_major, 1)

\* the body of changes.forEach: the bucket one change lands in
CategoryOf(change, is_major) ==
    LET c == KeywordLoop(ToLowerCase(change), is_major, 1)
    IN  IF c = "" THEN "bugs" ELSE c

Categories == {"performance", "security", "features", "bugs"}

RECURSIVE SelectCategory(_, _, _)
SelectCategory(changes, is_major, category) ==
    IF changes = <<>> THEN <<>>
    ELSE (IF CategoryOf(Head(changes), is_major) = category
          THEN <<Head(changes)>> ELSE <<>>)
         \o SelectCategory(Tail(changes), is_major, category)

categorizeChanges(changes, is_major) ==
    [category \in Categories |-> SelectCategory(changes, is_major, category)]

\* releaseData.map(...) callback of processReleaseNotes: one parsed release
\* becomes one record of release_notes.json
ProcessRelease(release) ==
    [version |-> release.version,
     releaseDate |-> release.releaseDate,
     categories |-> categorizeChanges(release.changes,
                                      EndsWith(release.version, ".0"))]

(***************************************************************************)
(* parseReleaseNotes: the Item Extractor and the Text Normalizer           *)
(***************************************************************************)

\* String.prototype.lastIndexOf, 1-based, 0 for JavaScript's -1
LastIndexOf(s, w) ==
    IF Occurrences(s, w) = {} THEN 0 ELSE Max(Occurrences(s, w))

\* path.extname: from the last "." of the name on, "" when there is none or
\* when the name starts with its only "."
ExtName(file) ==
    LET i == LastIndexOf(file, ".")
    IN  IF i <= 1 THEN "" ELSE Slice(file, i)

\* text.replace(/href="([^"]+)"/g, ...) of processText
RECURSIVE processText(_, _)
processText(text, baseUrl) ==
    LET i == IndexOf(text, "href=\"")
        start == i + 6
        q == IndexFrom(text, "\"", start)
        p1 == SubSeq(text, start, q - 1)
    IN  IF i = 0 \/ q = 0 THEN text
        ELSE IF q = start
             THEN SubSeq(text, 1, q) \o processText(Slice(text, q + 1), baseUrl)
        ELSE SubSeq(text, 1, i - 1)
             \o (IF ~StartsWith(p1, "http") /\ ~StartsWith(p1, "#")
                 THEN "href=\"" \o baseUrl \o p1 \o "\""
                 ELSE SubSeq(text, i, q))
             \o processText(Slice(text, q + 1), baseUrl)

\* String.prototype.replaceAll for a non-empty pattern
RECURSIVE ReplaceAll(_, _, _)
ReplaceAll(s, from, to) ==
    LET i == IndexOf(s, from)
    IN  IF i = 0 THEN s
        ELSE SubSeq(s, 1, i - 1) \o to \o ReplaceAll(Slice(s, i + Len(from)), from, to)

\* every <a href="X">T</a> of the markup as the markdown link [T](X)
RECURSIVE AnchorsToMarkdown(_)
AnchorsToMarkdown(html) ==
    LET i == IndexOf(html, "<a href=\"")
        q == IndexFrom(html, "\">", i + 9)
        e == IndexFrom(html, "</a>", q + 2)
    IN  IF i = 0 \/ q = 0 \/ e = 0 THEN html
        ELSE SubSeq(html, 1, i - 1)
             \o "[" \o SubSeq(html, q + 2, e - 1) \o "]"
             \o "(" \o SubSeq(html, i + 9, q - 1) \o ")"
             \o AnchorsToMarkdown(Slice(html, e + 4))

\* NodeHtmlMarkdown.translate on the markup the cached documents use:
\* paragraphs separated by a blank line, anchors as markdown links
Translate(html) ==
    Trim(ReplaceAll(ReplaceAll(ReplaceAll(AnchorsToMarkdown(html),
                                          "</p><p>", "\n\n"),
                               "<p>", ""),
                    "</p>", ""))

\* cheerio's .text() of a selection: the texts of the matched elements joined
RECURSIVE JoinText(_)
JoinText(texts) ==
    IF texts = <<>> THEN "" ELSE Head(texts) \o JoinText(Tail(texts))

\* $("#release-notes h2").first().text().trim().split(" ").pop()
VersionOf(doc) ==
    LET first == IF doc.headings = <<>> THEN "" ELSE doc.headings[1]
        tokens == Split(Trim(first), " ")
    IN  tokens[Len(tokens)]

\* $("p:contains('Release date:')").text().split(":")
DateParts(doc) ==
    Split(JoinText(SelectSeq(doc.paragraphs,
                             LAMBDA p : Includes(p, "Release date:"))), ":")

\* .split(":")[1] is undefined and .trim() throws a TypeError
DateThrows(doc) == Len(DateParts(doc)) < 2

ReleaseDateOf(doc) == Trim(DateParts(doc)[2])

BaseUrlOf(version) ==
    "https://www.postgresql.org/docs/" \o Split(version, ".")[1] \o "/"

RECURSIVE ChangesOf(_, _)
ChangesOf(listitems, baseUrl) ==
    IF listitems = <<>> THEN <<>>
    ELSE <<Translate(processText(Trim(Head(listitems)), baseUrl))>>
         \o ChangesOf(Tail(listitems), baseUrl)

\* the body of the for..of loop for one file that passes the name filter
ParseDocument(doc) ==
    [version |-> VersionOf(doc),
     releaseDate |-> ReleaseDateOf(doc),
     changes |-> ChangesOf(doc.listitems, BaseUrlOf(VersionOf(doc)))]

\* the name filter of the loop
IsReleaseFile(file) == ExtName(file) = ".html" /\ file # "index.html"

\* releaseData for a directory listing files over the directory dir
RECURSIVE parseReleaseNotes(_, _)
parseReleaseNotes(dir, files) ==
    IF files = <<>> THEN <<>>
    ELSE (IF IsReleaseFile(Head(files))
          THEN <<ParseDocument(dir[Head(files)])>> ELSE <<>>)
         \o parseReleaseNotes(dir, Tail(files))

\* the exception parseReleaseNotes raises for the listing, if any
ParseThrows(dir, files) ==
    \E k \in 1..Len(files) : IsReleaseFile(files[k]) /\ DateThrows(dir[files[k]])

(***************************************************************************)
(* The Title/Description/Contributor Parser                                *)
(***************************************************************************)

\* a replace that keeps the attribution
StripAttribution_Kept(s) == s

\* s.replace(/ \([^\)]+\)$/, ""): the leftmost " (...)" that runs to the end
\* of the string with no ")" inside is removed
StripAttribution(s) ==
    LET at == {i \in 1..(Len(s) - 3) :
                  /\ CharAt(s, i) = " "
                  /\ CharAt(s, i + 1) = "("
                  /\ CharAt(s, Len(s)) = ")"
                  /\ \A k \in (i + 2)..(Len(s) - 1) : CharAt(s, k) # ")"}
    IN  IF at = {} THEN s ELSE SubSeq(s, 1, Min(at) - 1)

extractTitleDescription(item) ==
    LET titleEnd == IndexOf(item, "\n") - 1
    IN  [title |-> IF titleEnd > 0
                   THEN StripAttribution(Trim(SubSeq(item, 1, titleEnd)))
                   ELSE StripAttribution(item),
         description |-> IF titleEnd > 0 THEN Trim(Slice(item, titleEnd + 2))
                         ELSE ""]

\* position of the first "(" or ")" after position i, 0 if none
NextParen(s, i) ==
    LET at == {k \in (i + 1)..Len(s) : CharAt(s, k) = "(" \/ CharAt(s, k) = ")"}
    IN  IF at = {} THEN 0 ELSE Min(at)

\* the start positions at which /[^\]]\(([^()]+)\)(?:\n|$)/ matches
ContributorMatches(s) ==
    {i \in 1..(Len(s) - 3) :
        /\ CharAt(s, i) # "]"
        /\ CharAt(s, i + 1) = "("
        /\ LET close == NextParen(s, i + 1)
           IN  /\ close > i + 2
               /\ CharAt(s, close) = ")"
               /\ (close = Len(s) \/ CharAt(s, close + 1) = "\n")}

\* item.match(...) without the g flag: <<whole match, group 1>> of the
\* leftmost match, <<>> for null
ContributorMatch(s) ==
    IF ContributorMatches(s) = {} THEN <<>>
    ELSE LET i == Min(ContributorMatches(s))
             close == NextParen(s, i + 1)
         IN  << SubSeq(s, i, IF close = Len(s) THEN close ELSE close + 1),
                SubSeq(s, i + 2, close - 1) >>

\* a test whose negations are missing
LooksLikeNames_Inverted(match) ==
    Includes(match, "http") \/ Includes(match, "www.") \/ Includes(match, "CVE-")

\* the test of the loop over the match array
LooksLikeNames(match) ==
    ~Includes(match, "http") /\ ~Includes(match, "www.") /\ ~Includes(match, "CVE-")

extractContributors(item) ==
    LET matches == ContributorMatch(item)
    IN  IF matches = <<>> THEN <<>>
        ELSE IF LooksLikeNames(matches[2]) THEN Split(Trim(matches[2]), ", ")
        ELSE IF LooksLikeNames(matches[1]) THEN Split(Trim(matches[1]), ", ")
        ELSE <<>>

IsDigit(c) == Len(c) = 1 /\ Includes("0123456789", c)

\* the start positions at which /CVE-\d{4}-\d+/ matches
CveMatches(s) ==
    {i \in 1..(Len(s) - 9) :
        /\ SubSeq(s, i, i + 3) = "CVE-"
        /\ \A k \in (i + 4)..(i + 7) : IsDigit(CharAt(s, k))
        /\ CharAt(s, i + 8) = "-"
        /\ IsDigit(CharAt(s, i + 9))}

\* JavaScript's null, as string concatenation writes it
Null == "null"

\* a match that takes the last identifier of the fragment
CveOf_Last(item) ==
    IF CveMatches(item) = {} THEN Null
    ELSE LET i == Max(CveMatches(item))
             last == Max({e \in (i + 9)..Len(item) :
                             \A k \in (i + 9)..e : IsDigit(CharAt(item, k))})
         IN  SubSeq(item, i, last)

\* cveMatch ? cveMatch[0] : null
CveOf(item) ==
    IF CveMatches(item) = {} THEN Null
    ELSE LET i == Min(CveMatches(item))
             last == Max({e \in (i + 9)..Len(item) :
                             \A k \in (i + 9)..e : IsDigit(CharAt(item, k))})
         IN  SubSeq(item, i, last)

IsSignificant(item) ==
    Includes(ToLowerCase(item), "significant") \/ Includes(ToLowerCase(item), "major")

parseSecurityItem(item, version) ==
    [cve |-> CveOf(item),
     title |-> extractTitleDescription(item).title,
     description |-> extractTitleDescription(item).description,
     fixedIn |-> version,
     contributors |-> extractContributors(item)]

parseBugItem(item, version) ==
    [title |-> extractTitleDescription(item).title,
     description |-> extractTitleDescription(item).description,
     fixedIn |-> version,
     significant |-> IsSignificant(item),
     contributors |-> extractContributors(item)]

\* a feature record that names its version as bug records do
parseFeatureItem_FixedIn(item, version) ==
    [title |-> extractTitleDescription(item).title,
     description |-> extractTitleDescription(item).description,
     fixedIn |-> version,
     significant |-> IsSignificant(item),
     contributors |-> extractContributors(item)]

parseFeatureItem(item, version) ==
    [title |-> extractTitleDescription(item).title,
     description |-> extractTitleDescription(item).description,
     sinceVersion |-> version,
     significant |-> IsSignificant(item),
     contributors |-> extractContributors(item)]

parsePerformanceItem(item, version) ==
    [title |-> extractTitleDescription(item).title,
     description |-> extractTitleDescription(item).description,
     sinceVersion |-> version,
     significant |-> IsSignificant(item),
     contributors |-> extractContributors(item)]

(***************************************************************************)
(* generateSummary: the Aggregator                                         *)
(***************************************************************************)

\* obj[key] = value on a JavaScript object
SetField(obj, key, value) ==
    [k \in DOMAIN obj \cup {key} |-> IF k = key THEN value ELSE obj[k]]

EmptySummary ==
    [versionDates |-> [v \in {} |-> ""],
     bugs |-> <<>>, features |-> <<>>, performance |-> <<>>, security |-> <<>>]

\* items.forEach(item => bucket.push(parse(item, version)))
RECURSIVE ParseAll(_, _, _)
ParseAll(items, version, bucket) ==
    IF items = <<>> THEN <<>>
    ELSE << CASE bucket = "security" -> parseSecurityItem(Head(items), version)
              [] bucket = "features" -> parseFeatureItem(Head(items), version)
              [] bucket = "performance" -> parsePerformanceItem(Head(items), version)
              [] OTHER -> parseBugItem(Head(items), version) >>
         \o ParseAll(Tail(items), version, bucket)

\* a loop body that puts the records of a release before the earlier ones
AddRelease_Prepended(sum, release) ==
    [versionDates |-> SetField(sum.versionDates, release.version, release.releaseDate),
     security |-> ParseAll(release.categories.security, release.version, "security")
                  \o sum.security,
     features |-> ParseAll(release.categories.features, release.version, "features")
                  \o sum.features,
     performance |-> ParseAll(release.categories.performance, release.version, "performance")
                  \o sum.performance,
     bugs |-> ParseAll(release.categories.bugs, release.version, "bugs")
                  \o sum.bugs]

\* the body of releaseNotes.forEach for one release
AddRelease(sum, release) ==
    [versionDates |-> SetField(sum.versionDates, release.version, release.releaseDate),
     security |-> sum.security
                  \o ParseAll(release.categories.security, release.version, "security"),
     features |-> sum.features
                  \o ParseAll(release.categories.features, release.version, "features"),
     performance |-> sum.performance
                  \o ParseAll(release.categories.performance, release.version, "performance"),
     bugs |-> sum.bugs
                  \o ParseAll(release.categories.bugs, release.version, "bugs")]

\* the summary built from the releases of release_notes.json, in order
RECURSIVE Summarize(_, _)
Summarize(sum, releases) ==
    IF releases = <<>> THEN sum
    ELSE Summarize(AddRelease(sum, Head(releases)), Tail(releases))

(***************************************************************************)
(* updateFormattedLinks: the Link Rewriter                                 *)
(***************************************************************************)

\* position of the first ")" after position i, 0 if none
NextClose(s, i) == IndexFrom(s, ")", i + 1)

\* the start positions at which /\(([^)]+\.html[^)]*)\)/ matches
LinkMatches(s) ==
    {i \in 1..Len(s) :
        /\ CharAt(s, i) = "("
        /\ NextClose(s, i) # 0
        /\ \E k \in (i + 2)..(NextClose(s, i) - 5) : SubSeq(s, k, k + 4) = ".html"}

\* a replacement that prefixes every group
AbsoluteLink_Always(p1, baseUrl) == "(" \o baseUrl \o p1 \o ")"

\* the replacement updateLinks returns for the group p1
AbsoluteLink(p1, baseUrl) ==
    IF ~StartsWith(p1, "http") THEN "(" \o baseUrl \o p1 \o ")"
    ELSE "(" \o p1 \o ")"

\* text.replace(/\(([^)]+\.html[^)]*)\)/g, ...) of updateLinks
RECURSIVE ReplaceLinks(_, _)
ReplaceLinks(text, baseUrl) ==
    IF LinkMatches(text) = {} THEN text
    ELSE LET i == Min(LinkMatches(text))
             close == NextClose(text, i)
         IN  SubSeq(text, 1, i - 1)
             \o AbsoluteLink(SubSeq(text, i + 1, close - 1), baseUrl)
             \o ReplaceLinks(Slice(text, close + 1), baseUrl)

updateLinks(text, version) ==
    LET effectiveVersion == IF version = "" THEN "0" ELSE version
    IN  ReplaceLinks(text, BaseUrlOf(effectiveVersion))

\* a killLinks that keeps the groups that start with "http"
RECURSIVE killLinks_RelativeOnly(_)
killLinks_RelativeOnly(text) ==
    IF LinkMatches(text) = {} THEN text
    ELSE LET i == Min(LinkMatches(text))
             close == NextClose(text, i)
         IN  SubSeq(text, 1, i - 1)
             \o (IF StartsWith(SubSeq(text, i + 1, close - 1), "http")
                 THEN SubSeq(text, i, close) ELSE "")
             \o killLinks_RelativeOnly(Slice(text, close + 1))

\* text.replace(/\(([^)]+\.html[^)]*)\)/g, ...) of killLinks: p1 is never
\* empty, every match is replaced by ''
RECURSIVE killLinks(_)
killLinks(text) ==
    IF LinkMatches(text) = {} THEN text
    ELSE LET i == Min(LinkMatches(text))
         IN  SubSeq(text, 1, i - 1) \o killLinks(Slice(text, NextClose(text, i) + 1))

\* item.fixedIn || item.sinceVersion || '0'
ItemVersion(item) ==
    IF "fixedIn" \in DOMAIN item /\ item.fixedIn # "" THEN item.fixedIn
    ELSE IF "sinceVersion" \in DOMAIN item /\ item.sinceVersion # "" THEN item.sinceVersion
    ELSE "0"

\* a callback that builds the item anew without the fields of the Enricher
UpdateItem_Rebuilt(item) ==
    [k \in DOMAIN item \ {"metrics", "severity", "impactScore"} |->
        IF k = "title" THEN killLinks(item.title)
        ELSE IF k = "description" THEN updateLinks(item.description, ItemVersion(item))
        ELSE item[k]]

\* the callback of json[category].map
UpdateItem(item) ==
    [k \in DOMAIN item |->
        IF k = "title" THEN killLinks(item.title)
        ELSE IF k = "description" THEN updateLinks(item.description, ItemVersion(item))
        ELSE item[k]]

UpdateBucket(items) == [k \in 1..Len(items) |-> UpdateItem(items[k])]

\* the summary after categories.forEach
UpdateSummary(json) ==
    [versionDates |-> json.versionDates,
     bugs |-> UpdateBucket(json.bugs),
     features |-> UpdateBucket(json.features),
     performance |-> UpdateBucket(json.performance),
     security |-> UpdateBucket(json.security)]

(***************************************************************************)
(* addCVE: the Enricher                                                    *)
(***************************************************************************)

\* a test that never finds metrics
HasMetrics_Never(security) == FALSE

\* a test that also sends an item whose severity is "None" to the lookup
HasMetrics_AndSeverity(security) ==
    "metrics" \in DOMAIN security /\ security.severity # "None"

\* "metrics" in security
HasMetrics(security) == "metrics" \in DOMAIN security

\* a chain that tries the newest schema first
SeverityOf_NewestFirst(metrics) ==
    IF "cvssMetricV31" \in DOMAIN metrics
    THEN metrics.cvssMetricV31[1].cvssData.baseSeverity
    ELSE IF "cvssMetricV30" \in DOMAIN metrics
    THEN metrics.cvssMetricV30[1].cvssData.baseSeverity
    ELSE IF "cvssMetricV2" \in DOMAIN metrics
    THEN metrics.cvssMetricV2[1].baseSeverity
    ELSE "None"

\* the ternary chain for security.severity
SeverityOf(metrics) ==
    IF "cvssMetricV30" \in DOMAIN metrics
    THEN metrics.cvssMetricV30[1].cvssData.baseSeverity
    ELSE IF "cvssMetricV31" \in DOMAIN metrics
    THEN metrics.cvssMetricV31[1].cvssData.baseSeverity
    ELSE IF "cvssMetricV2" \in DOMAIN metrics
    THEN metrics.cvssMetricV2[1].baseSeverity
    ELSE "None"

\* a chain whose first two tests are swapped against the severity chain
ImpactScoreOf_V31First(metrics) ==
    IF "cvssMetricV31" \in DOMAIN metrics
    THEN metrics.cvssMetricV31[1].impactScore
    ELSE IF "cvssMetricV30" \in DOMAIN metrics
    THEN metrics.cvssMetricV30[1].impactScore
    ELSE IF "cvssMetricV2" \in DOMAIN metrics
    THEN metrics.cvssMetricV2[1].impactScore
    ELSE 0

\* the ternary chain for security.impactScore
ImpactScoreOf(metrics) ==
    IF "cvssMetricV30" \in DOMAIN metrics
    THEN metrics.cvssMetricV30[1].impactScore
    ELSE IF "cvssMetricV31" \in DOMAIN metrics
    THEN metrics.cvssMetricV31[1].impactScore
    ELSE IF "cvssMetricV2" \in DOMAIN metrics
    THEN metrics.cvssMetricV2[1].impactScore
    ELSE 0

\* the else branch: severity and impactScore recomputed from security.metrics
Repair(security) ==
    SetField(SetField(security, "severity", SeverityOf(security.metrics)),
             "impactScore", ImpactScoreOf(security.metrics))

\* a test that accepts every non-empty answer
ExactlyOne_AtLeastOne(cveData) ==
    "vulnerabilities" \in DOMAIN cveData /\ cveData.totalResults >= 1

\* cveData && cveData.vulnerabilities && cveData.totalResults == 1
ExactlyOne(cveData) ==
    "vulnerabilities" \in DOMAIN cveData /\ cveData.totalResults = 1

\* the then branch after the response: the item as the response leaves it
Enrich(security, cveData) ==
    IF ExactlyOne(cveData)
    THEN Repair(SetField(security, "metrics", cveData.vulnerabilities[1].cve.metrics))
    ELSE security

(***************************************************************************)
(* The cached documents and the advisory service                           *)
(***************************************************************************)

\* A cached document as cheerio selects from it: the texts of the
\* "#release-notes h2" headings, the texts of the <p> elements, and the inner
\* markup of the ".itemizedlist ul li.listitem" elements.
Doc160 ==
    [headings |-> <<"Release 16.0">>,
     paragraphs |-> <<"Release date: 2023-09-14">>,
     listitems |->
        << "<p>Improve <a href=\"vacuum.html\">VACUUM</a> speed (Alice, Bob)</p>",
           "<p>Fix leak (CVE-2023-1234)</p><p>See <a href=\"#sec\">notes</a> (Tom)</p>" >>]

Doc161 ==
    [headings |-> <<"Release 16.1">>,
     paragraphs |-> <<"Release date: 2023-11-09">>,
     listitems |->
        << "Fix crash in parser (Carol)",
           "<p>Add new option against cve abuse (Dave)</p>" >>]

\* the same document without its release-date paragraph
Doc161NoDate == [Doc161 EXCEPT !.paragraphs = <<"Migration to 16.1">>]

\* the same document without its version heading
Doc161NoHeading == [Doc161 EXCEPT !.headings = <<>>]

\* the same document without its item-list container
Doc161NoList == [Doc161 EXCEPT !.listitems = <<>>]

\* a document of the same release with the first list item only
Doc161Single == [Doc161 EXCEPT !.listitems = <<"Fix crash in parser (Carol)">>]

\* the index page: no heading, no date paragraph, no item list
DocIndex == [headings |-> <<>>, paragraphs |-> <<>>, listitems |-> <<>>]

Files == {"index.html", "16.0.html", "16.1.html"}

\* the documents a file of the cache directory can hold
PagesOf(file) ==
    CASE file = "index.html" -> {DocIndex}
      [] file = "16.0.html" -> {Doc160}
      [] OTHER -> {Doc161, Doc161NoDate, Doc161NoHeading, Doc161NoList, Doc161Single}

\* the cache directories: any subset of the files, each with one of its pages
CachePool ==
    UNION { {dir \in [F -> UNION {PagesOf(f) : f \in Files}] :
                \A f \in F : dir[f] \in PagesOf(f)} : F \in SUBSET Files }

\* fs.readdir: the names of the directory in an order the file system chooses
Listings(dir) ==
    {files \in [1..Cardinality(DOMAIN dir) -> DOMAIN dir] :
        \A i, j \in DOMAIN files : files[i] = files[j] => i = j}

SchemaKeys == {"cvssMetricV30", "cvssMetricV31", "cvssMetricV2"}

\* One entry of a metrics array.  The v3 schemas keep baseSeverity under
\* cvssData, v2 keeps it beside impactScore.  impactScore is in tenths.
MetricEntry(key) ==
    CASE key = "cvssMetricV30" ->
            <<[cvssData |-> [baseSeverity |-> "HIGH"], impactScore |-> 59]>>
      [] key = "cvssMetricV31" ->
            <<[cvssData |-> [baseSeverity |-> "CRITICAL"], impactScore |-> 60]>>
      [] OTHER ->
            <<[baseSeverity |-> "MEDIUM", impactScore |-> 64]>>

\* the metrics object that carries exactly the schemas of present
MetricsWith(present) == [key \in present |-> MetricEntry(key)]

Found(metrics) ==
    [totalResults |-> 1, vulnerabilities |-> <<[cve |-> [metrics |-> metrics]]>>]

NotFound == [totalResults |-> 0, vulnerabilities |-> <<>>]

Ambiguous ==
    [totalResults |-> 2,
     vulnerabilities |-> << [cve |-> [metrics |-> MetricsWith(SchemaKeys)]],
                            [cve |-> [metrics |-> MetricsWith({})]] >>]

\* the bodies the advisory service answers a lookup with in a pipeline run
Responses ==
    {NotFound, Ambiguous}
    \cup {Found(MetricsWith(present)) : present \in SUBSET SchemaKeys}

(***************************************************************************)
(* State                                                                   *)
(***************************************************************************)

VARIABLES
    cache,         \* the cache directory: file name -> cached document
    releaseNotes,  \* release_notes.json: <<>> when absent, else <<releases>>
    summary,       \* release_notes_formatted.json: <<>> or <<summary>>
    processLog,    \* how the last process command ended
    pc,            \* where the cve command stands: idle, check, delay,
                   \* fetch, parsed
    cveData,       \* the parsed answer of the lookup: <<>> or <<answer>>
    mem,           \* releaseNotesFormatted of the running cve command
    idx,           \* the security item the cve command is at, 0 when idle
    runStart,      \* the security bucket as the running cve command read it
    delayed,       \* the items the current or last cve run delayed for
    looked,        \* the items the current or last cve run looked up
    prior,         \* how the cve run before the current one ended
    input,         \* argument of the function under test: <<>> or <<value>>
    output,        \* its result: <<>> or <<value>>
    spc,           \* where the scrape command stands: idle, index,
                   \* saveIndex, fetch, save, delay
    versions,      \* the versions the running or last scrape command loops over
    si,            \* the version the scrape command is at, 0 when idle
    single,        \* the scrape command is scrape-version, not scrape-all
    page,          \* the document fetchPage returned: <<>> or <<document>>
    attempted,     \* the versions fetchPage was called for in this or the last run
    scrapeLog      \* the console.error lines of this or the last scrape run

vars == <<cache, releaseNotes, summary, processLog, pc, cveData, mem, idx, runStart,
          delayed, looked, prior, input, output, spc, versions, si, single, page,
          attempted, scrapeLog>>

files == <<releaseNotes, summary>>
cveRun == <<pc, cveData, mem, idx, runStart, delayed, looked, prior>>
harness == <<input, output>>
scraping == <<spc, versions, si, single, page, attempted, scrapeLog>>

\* no scrape command has run
ScrapeIdle ==
    /\ spc = "idle"
    /\ versions = <<>>
    /\ si = 0
    /\ single = FALSE
    /\ page = <<>>
    /\ attempted = {}
    /\ scrapeLog = {}

\* JSON.stringify followed by fs.writeFile: the file holds the content
WriteFile(old, content) == <<content>>

Init ==
    /\ cache \in CachePool
    /\ releaseNotes = <<>>
    /\ summary = <<>>
    /\ processLog = "none"
    /\ pc = "idle"
    /\ cveData = <<>>
    /\ mem = <<>>
    /\ idx = 0
    /\ runStart = <<>>
    /\ delayed = {}
    /\ looked = {}
    /\ prior = "none"
    /\ input = <<>>
    /\ output = <<>>
    /\ ScrapeIdle

(***************************************************************************)
(* The commands                                                            *)
(***************************************************************************)

\* processedData of processReleaseNotes for a directory listing
ProcessedData(dir, listing) ==
    LET releaseData == parseReleaseNotes(dir, listing)
    IN  [k \in 1..Len(releaseData) |-> ProcessRelease(releaseData[k])]

\* The outcome of process for every cache directory and listing, computed
\* once: <<>> when parseReleaseNotes throws, else <<processedData>>.
ProcessOutcome ==
    [run \in UNION {{<<dir, listing>> : listing \in Listings(dir)} : dir \in CachePool} |->
        IF ParseThrows(run[1], run[2]) THEN <<>>
        ELSE <<ProcessedData(run[1], run[2])>>]

\* every content release_notes.json can have
ReleaseNotesPool ==
    {ProcessOutcome[run][1] : run \in {r \in DOMAIN ProcessOutcome : ProcessOutcome[r] # <<>>}}

\* The summary format builds from every content of release_notes.json,
\* computed once.
FormatOutcome ==
    [releases \in ReleaseNotesPool |-> Summarize(EmptySummary, releases)]

\* process: an exception of parseReleaseNotes is caught and logged, and
\* release_notes.json is not written
Process ==
    /\ pc = "idle"
    /\ \E listing \in Listings(cache) :
          IF ProcessOutcome[<<cache, listing>>] = <<>>
          THEN /\ processLog' = "error"
               /\ UNCHANGED releaseNotes
          ELSE /\ processLog' = "written"
               /\ releaseNotes' = WriteFile(releaseNotes, ProcessOutcome[<<cache, listing>>][1])
    /\ UNCHANGED <<cache, summary, cveRun, harness, scraping>>

\* a format that leaves a summary file that exists as it is
Format_KeepsSummary ==
    /\ pc = "idle"
    /\ releaseNotes # <<>>
    /\ summary' = IF summary = <<>>
                  THEN WriteFile(summary, FormatOutcome[releaseNotes[1]])
                  ELSE summary
    /\ prior' = "none"
    /\ UNCHANGED <<cache, releaseNotes, processLog, pc, cveData, mem, idx,
                   runStart, delayed, looked, harness, scraping>>

\* format: reading a missing release_notes.json throws, which is caught
Format ==
    /\ pc = "idle"
    /\ releaseNotes # <<>>
    /\ summary' = WriteFile(summary, FormatOutcome[releaseNotes[1]])
    /\ prior' = "none"
    /\ UNCHANGED <<cache, releaseNotes, processLog, pc, cveData, mem, idx,
                   runStart, delayed, looked, harness, scraping>>

\* update-links
UpdateLinks ==
    /\ pc = "idle"
    /\ summary # <<>>
    /\ summary' = WriteFile(summary, UpdateSummary(summary[1]))
    /\ UNCHANGED <<cache, releaseNotes, processLog, cveRun, harness, scraping>>

\* a pass that does not write the file
SaveSummary_Skipped(old, content) == old

\* fs.writeFile(summaryFile, JSON.stringify(releaseNotesFormatted)) at the
\* end of a pass: the file holds the content
SaveSummary(old, content) == <<content>>

\* The end of one pass of the for..of loop: releaseNotesFormatted, now
\* content, is written to the summary file, and the loop goes to the next
\* item or ends, and the command with it.
EndOfPass(content) ==
    /\ summary' = SaveSummary(summary, content)
    /\ IF idx < Len(content.security)
       THEN /\ idx' = idx + 1
            /\ pc' = "check"
            /\ mem' = <<content>>
            /\ UNCHANGED prior
       ELSE /\ idx' = 0
            /\ pc' = "idle"
            /\ mem' = <<>>
            /\ prior' = "completed"

\* cve: the summary file is read and the loop entered
CveStart ==
    /\ pc = "idle"
    /\ summary # <<>>
    /\ runStart' = summary[1].security
    /\ delayed' = {}
    /\ looked' = {}
    /\ IF summary[1].security = <<>>
       THEN /\ prior' = "completed"
            /\ UNCHANGED <<pc, mem, idx>>
       ELSE /\ pc' = "check"
            /\ mem' = summary
            /\ idx' = 1
            /\ UNCHANGED prior
    /\ UNCHANGED <<cache, files, processLog, cveData, harness, scraping>>

\* the item carries metrics: severity and impactScore are recomputed and the
\* summary is written
CveRepair ==
    /\ pc = "check"
    /\ HasMetrics(mem[1].security[idx])
    /\ EndOfPass([mem[1] EXCEPT !.security[idx] = Repair(@)])
    /\ UNCHANGED <<cache, releaseNotes, processLog, cveData, runStart, delayed,
                   looked, harness, scraping>>

\* the item carries no metrics: await delay(10000)
CveDelay ==
    /\ pc = "check"
    /\ ~HasMetrics(mem[1].security[idx])
    /\ pc' = "delay"
    /\ delayed' = delayed \cup {idx}
    /\ UNCHANGED <<cache, files, processLog, cveData, mem, idx, runStart, looked,
                   prior, harness, scraping>>

\* the delay is over: fetchPage(CVEAPI + security.cve) sends the lookup
CveFetch ==
    /\ pc = "delay"
    /\ pc' = "fetch"
    /\ looked' = looked \cup {idx}
    /\ UNCHANGED <<cache, files, processLog, cveData, mem, idx, runStart, delayed,
                   prior, harness, scraping>>

\* the lookup answers and JSON.parse yields cveData
CveReceive ==
    /\ pc = "fetch"
    /\ pc' = "parsed"
    /\ \E answer \in Responses : cveData' = <<answer>>
    /\ UNCHANGED <<cache, files, processLog, mem, idx, runStart, delayed, looked,
                   prior, harness, scraping>>

\* the item is enriched when the answer holds exactly one record, and the
\* summary is written either way
CveApply ==
    /\ pc = "parsed"
    /\ EndOfPass([mem[1] EXCEPT !.security[idx] = Enrich(@, cveData[1])])
    /\ cveData' = <<>>
    /\ UNCHANGED <<cache, releaseNotes, processLog, runStart, delayed, looked,
                   harness, scraping>>

\* the lookup fails (HTTP status, network, JSON.parse): the exception leaves
\* the loop and is caught and logged at the end of addCVE
CveFail ==
    /\ pc = "fetch"
    /\ pc' = "idle"
    /\ mem' = <<>>
    /\ idx' = 0
    /\ prior' = "failed"
    /\ UNCHANGED <<cache, files, processLog, cveData, runStart, delayed, looked,
                   harness, scraping>>

\* the process of the cve command is terminated from outside
Interrupt ==
    /\ pc # "idle"
    /\ pc' = "idle"
    /\ cveData' = <<>>
    /\ mem' = <<>>
    /\ idx' = 0
    /\ prior' = "interrupted"
    /\ UNCHANGED <<cache, files, processLog, runStart, delayed, looked, harness, scraping>>

Next ==
    \/ Process
    \/ Format
    \/ UpdateLinks
    \/ CveStart
    \/ CveRepair
    \/ CveDelay
    \/ CveFetch
    \/ CveReceive
    \/ CveApply
    \/ CveFail
    \/ Interrupt

Spec == Init /\ [][Next]_vars

(***************************************************************************)
(* scrape-all and scrape-version                                           *)
(***************************************************************************)

\* The release index page as cheerio selects from it: the texts of the
\* "details.release-notes-list li a" anchors, beside the empty selections of
\* an index page.
MainPage(links) == SetField(DocIndex, "links", links)

\* the index pages the site answers with
MainPages ==
    {MainPage(<<>>),
     MainPage(<<"16.1">>),
     MainPage(<<"16.1", "16.0">>),
     MainPage(<<" 16.1 ", "17beta1", "16.0">>)}

\* the documents the site answers a version's URL with; none when the URL
\* does not exist, and then fetchPage can only throw
VersionPages(version) ==
    CASE version = "16.0" -> {Doc160}
      [] version = "16.1" -> {Doc161, Doc161NoDate}
      [] OTHER -> {}

\* the versions the scrape-version command is given
ScrapeArguments == {"16.0", "16.1", "17beta1"}

extractVersions(html) == [k \in 1..Len(html.links) |-> Trim(html.links[k])]

\* saveToCacheFile: the cache file holds the content
saveToCacheFile(dir, filename, content) == SetField(dir, filename, content)

\* console.error("Error scraping all versions:", error.message)
AllError(message) == "Error scraping all versions: " \o message

\* console.error(`Error scraping version ${version}:`, error.message)
VersionError(version, message) ==
    "Error scraping version " \o version \o ": " \o message

\* scrapeSpecificVersion has returned: scrape-version ends, scrape-all goes
\* on to await delay(DELAY_MS)
VersionDone(isSingle) == IF isSingle THEN "idle" ELSE "delay"

\* a scrapeSpecificVersion whose exception reaches the caller's catch
VersionFailed_Rethrown(isSingle) == "idle"

\* the catch of scrapeSpecificVersion: the exception is logged and the
\* function returns normally
VersionFailed(isSingle) == VersionDone(isSingle)

\* the scrape command has ended
ScrapeEnd ==
    /\ si' = 0
    /\ page' = <<>>

\* scrape-all: fs.mkdir creates the cache directory or throws
ScrapeAllStart ==
    /\ spc = "idle"
    /\ single' = FALSE
    /\ versions' = <<>>
    /\ attempted' = {}
    /\ \/ spc' = "index" /\ scrapeLog' = {}
       \/ spc' = "idle" /\ scrapeLog' = {AllError("mkdir")}
    /\ UNCHANGED <<cache, files, processLog, cveRun, harness, si, page>>

\* fetchPage(BASE_URL) returns the index page or throws
ScrapeIndex ==
    /\ spc = "index"
    /\ \/ \E html \in MainPages : spc' = "saveIndex" /\ page' = <<html>>
                                   /\ UNCHANGED scrapeLog
       \/ /\ spc' = "idle"
          /\ scrapeLog' = scrapeLog \cup {AllError("fetch")}
          /\ UNCHANGED page
    /\ UNCHANGED <<cache, files, processLog, cveRun, harness, versions, si, single,
                   attempted>>

\* saveToCacheFile("index.html", mainPageHtml) writes or throws; after the
\* write extractVersions yields the versions and the loop is entered
ScrapeSaveIndex ==
    /\ spc = "saveIndex"
    /\ \/ /\ cache' = saveToCacheFile(cache, "index.html", page[1])
          /\ versions' = extractVersions(page[1])
          /\ IF extractVersions(page[1]) = <<>>
             THEN spc' = "idle" /\ si' = 0
             ELSE spc' = "fetch" /\ si' = 1
          /\ UNCHANGED scrapeLog
       \/ /\ spc' = "idle"
          /\ scrapeLog' = scrapeLog \cup {AllError("writeFile")}
          /\ UNCHANGED <<cache, versions, si>>
    /\ page' = <<>>
    /\ UNCHANGED <<files, processLog, cveRun, harness, single, attempted>>

\* scrape-version <version>
ScrapeVersionStart ==
    /\ spc = "idle"
    /\ \E version \in ScrapeArguments : versions' = <<version>>
    /\ single' = TRUE
    /\ si' = 1
    /\ spc' = "fetch"
    /\ attempted' = {}
    /\ scrapeLog' = {}
    /\ UNCHANGED <<cache, files, processLog, cveRun, harness, page>>

\* scrapeSpecificVersion: fetchPage(url) returns the document or throws
ScrapeFetch ==
    /\ spc = "fetch"
    /\ attempted' = attempted \cup {versions[si]}
    /\ \/ \E html \in VersionPages(versions[si]) :
             /\ spc' = "save"
             /\ page' = <<html>>
             /\ UNCHANGED <<si, scrapeLog>>
       \/ /\ spc' = VersionFailed(single)
          /\ scrapeLog' = scrapeLog \cup {VersionError(versions[si], "fetch")}
          /\ IF spc' = "idle" THEN ScrapeEnd ELSE UNCHANGED <<si, page>>
    /\ UNCHANGED <<cache, files, processLog, cveRun, harness, versions, single>>

\* scrapeSpecificVersion: saveToCacheFile writes the document or throws
ScrapeSave ==
    /\ spc = "save"
    /\ \/ /\ cache' = saveToCacheFile(cache, versions[si] \o ".html", page[1])
          /\ spc' = VersionDone(single)
          /\ UNCHANGED scrapeLog
       \/ /\ spc' = VersionFailed(single)
          /\ scrapeLog' = scrapeLog \cup {VersionError(versions[si], "writeFile")}
          /\ UNCHANGED cache
    /\ page' = <<>>
    /\ si' = IF spc' = "idle" THEN 0 ELSE si
    /\ UNCHANGED <<files, processLog, cveRun, harness, versions, single, attempted>>

\* await delay(DELAY_MS) is over: the loop goes to the next version or ends
ScrapeDelay ==
    /\ spc = "delay"
    /\ IF si < Len(versions)
       THEN spc' = "fetch" /\ si' = si + 1
       ELSE spc' = "idle" /\ si' = 0
    /\ UNCHANGED <<cache, files, processLog, cveRun, harness, versions, single, page,
                   attempted, scrapeLog>>

\* a fresh checkout: the cache directory does not exist yet
InitScrape ==
    /\ cache = [f \in {} |-> DocIndex]
    /\ releaseNotes = <<>>
    /\ summary = <<>>
    /\ processLog = "none"
    /\ pc = "idle"
    /\ cveData = <<>>
    /\ mem = <<>>
    /\ idx = 0
    /\ runStart = <<>>
    /\ delayed = {}
    /\ looked = {}
    /\ prior = "none"
    /\ input = <<>>
    /\ output = <<>>
    /\ ScrapeIdle

NextScrape ==
    \/ ScrapeAllStart
    \/ ScrapeIndex
    \/ ScrapeSaveIndex
    \/ ScrapeVersionStart
    \/ ScrapeFetch
    \/ ScrapeSave
    \/ ScrapeDelay

SpecScrape == InitScrape /\ [][NextScrape]_vars

\* an error of the scrape-all command itself is in the log
AllErrorLogged == \E message \in {"mkdir", "fetch", "writeFile"} :
                     AllError(message) \in scrapeLog

\* every version the scrape-all loop has passed had its fetch attempted, and
\* is cached unless an error is logged for it; a run that ended without an
\* error of the command itself has passed every listed version
VersionFailuresIsolated ==
    ~single =>
        /\ \A k \in 1..Len(versions) :
              (spc = "idle" \/ k < si) =>
                  /\ versions[k] \in attempted
                  /\ \/ VersionError(versions[k], "fetch") \in scrapeLog
                     \/ VersionError(versions[k], "writeFile") \in scrapeLog
                     \/ (versions[k] \o ".html") \in DOMAIN cache
        /\ \A version \in ScrapeArguments :
              (VersionError(version, "fetch") \in scrapeLog
               \/ VersionError(version, "writeFile") \in scrapeLog)
                  => version \in attempted

\* C12 as stated: a version's failure is logged and the later versions are
\* still fetched, and a scrape-all run fetches no version only when the fetch
\* of the index page failed (or the index lists no version)
C12_OnlyIndexFetchPrevents ==
    /\ VersionFailuresIsolated
    /\ (~single /\ spc = "idle" /\ attempted = {}) =>
           \/ AllError("fetch") \in scrapeLog
           \/ ~AllErrorLogged /\ versions = <<>>

\* C12 amended: a version's failure is logged and the later versions are
\* still fetched, and a scrape-all run fetches no version only when a step
\* before the loop failed: creating the cache directory, fetching the index
\* page or writing it to the cache (or when the index lists no version)
C12_OnlyPreLoopFailurePrevents ==
    /\ VersionFailuresIsolated
    /\ (~single /\ spc = "idle" /\ attempted = {}) =>
           \/ AllErrorLogged
           \/ versions = <<>>
    /\ AllErrorLogged => attempted = {} /\ versions = <<>>

\* a scrape-all run has ended in which the first two versions failed, one at
\* the fetch and one at the write, and the third was fetched and cached
C12_Witness ==
    /\ spc = "idle"
    /\ ~single
    /\ versions = <<"16.1", "17beta1", "16.0">>
    /\ scrapeLog = {VersionError("16.1", "writeFile"), VersionError("17beta1", "fetch")}
    /\ attempted = {"16.1", "17beta1", "16.0"}
    /\ DOMAIN cache = {"index.html", "16.0.html"}

(***************************************************************************)
(* Properties of the Enricher and of process                               *)
(***************************************************************************)

\* the security bucket of the summary file, <<>> when there is no file
Persisted == IF summary = <<>> THEN <<>> ELSE summary[1].security

\* <<severity, impactScore>> of the first schema of order that metrics holds
FirstOf(order, metrics) ==
    LET held == {k \in 1..Len(order) : order[k] \in DOMAIN metrics}
        entry == metrics[order[Min(held)]][1]
    IN  IF held = {} THEN <<"None", 0>>
        ELSE IF order[Min(held)] = "cvssMetricV2"
        THEN <<entry.baseSeverity, entry.impactScore>>
        ELSE <<entry.cvssData.baseSeverity, entry.impactScore>>

\* C4 as stated: a cve run that follows a completed run on the same summary
\* looks nothing up
C4_RerunLooksNothingUp ==
    (pc # "idle" /\ prior = "completed") => looked = {}

\* C4 amended: in a cve run that follows a completed run on the same
\* summary, an item that carried metrics when the run began is neither
\* delayed for nor looked up and keeps its severity and impactScore; only
\* items the earlier run left without metrics are looked up again
C4_RerunKeepsEnriched ==
    [][(pc # "idle" /\ prior = "completed" /\ "metrics" \in DOMAIN runStart[idx])
        => /\ idx \notin looked' /\ idx \notin delayed'
           /\ summary'[1].security[idx].severity = runStart[idx].severity
           /\ summary'[1].security[idx].impactScore = runStart[idx].impactScore]_vars

\* a rerun has passed an enriched item without a lookup and looks up the
\* item the completed run missed
C4_Witness ==
    /\ prior = "completed"
    /\ pc = "fetch"
    /\ idx = 2
    /\ looked = {2}
    /\ "metrics" \in DOMAIN runStart[1]
    /\ Persisted[1].severity = runStart[1].severity

\* C5: the pass for an item that carries metrics neither delays nor looks
\* up, keeps the metrics and sets severity and impactScore from them
C5_MetricsSkipLookup ==
    [][(pc = "check" /\ "metrics" \in DOMAIN mem[1].security[idx])
        => /\ looked' = looked
           /\ delayed' = delayed
           /\ pc' \in {"check", "idle"}
           /\ summary'[1].security[idx].metrics = mem[1].security[idx].metrics
           /\ <<summary'[1].security[idx].severity,
                summary'[1].security[idx].impactScore>>
              = FirstOf(<<"cvssMetricV30", "cvssMetricV31", "cvssMetricV2">>,
                        mem[1].security[idx].metrics)]_vars

\* the run is past an item that carried metrics at its start and has issued
\* neither delay nor lookup
C5_Witness ==
    /\ pc = "check"
    /\ idx = 2
    /\ "metrics" \in DOMAIN runStart[1]
    /\ looked = {}
    /\ delayed = {}
    /\ Persisted[1].severity = "CRITICAL"

\* C6: while the cve command runs, the summary file holds the summary as
\* the command has it in memory, so the enrichment of every item passed so
\* far, and a delay or lookup is under way only for an item the file shows
\* without metrics
C6_PersistedEveryItem ==
    pc # "idle" =>
        /\ summary = mem
        /\ pc \in {"delay", "fetch", "parsed"}
              => "metrics" \notin DOMAIN summary[1].security[idx]

\* a run resumed after an interruption has passed the item the interrupted
\* run enriched, without a lookup
C6_Witness ==
    /\ prior = "interrupted"
    /\ pc = "delay"
    /\ idx = 2
    /\ looked = {}
    /\ delayed = {2}
    /\ "metrics" \in DOMAIN Persisted[1]

\* C7: the pass that follows an answer sets metrics, severity and
\* impactScore when totalResults is 1, and for any other count leaves the item
\* without the three fields; either way it raises nothing and goes on to the
\* next item or ends the run normally
C7_OnlyExactlyOne ==
    [][(pc = "parsed" /\ ~(pc' = "idle" /\ prior' = "interrupted"))
        => /\ IF cveData[1].totalResults = 1
              THEN /\ {"metrics", "severity", "impactScore"}
                        \subseteq DOMAIN summary'[1].security[idx]
                   /\ summary'[1].security[idx].metrics
                        = cveData[1].vulnerabilities[1].cve.metrics
              ELSE /\ summary'[1].security[idx] = mem[1].security[idx]
                   /\ DOMAIN summary'[1].security[idx]
                        \cap {"metrics", "severity", "impactScore"} = {}
           /\ \/ pc' = "check" /\ idx' = idx + 1
              \/ pc' = "idle" /\ prior' = "completed" /\ idx = Len(runStart)]_vars

\* the run went on to the second item after a lookup that left the first
\* item without metrics
C7_Witness ==
    /\ pc = "check"
    /\ idx = 2
    /\ looked = {1}
    /\ "metrics" \notin DOMAIN Persisted[1]

\* C8: every security item that carries metrics has the severity and the
\* impactScore of v3.0 if present, else of v3.1, else of v2, else "None" and 0
C8_Precedence ==
    \A k \in 1..Len(Persisted) :
        "metrics" \in DOMAIN Persisted[k] =>
            <<Persisted[k].severity, Persisted[k].impactScore>>
            = FirstOf(<<"cvssMetricV30", "cvssMetricV31", "cvssMetricV2">>,
                      Persisted[k].metrics)

\* one item enriched from v3.1 and v2 data, one from metrics without schema
C8_Witness ==
    /\ Len(Persisted) = 2
    /\ "metrics" \in DOMAIN Persisted[1]
    /\ DOMAIN Persisted[1].metrics = {"cvssMetricV31", "cvssMetricV2"}
    /\ Persisted[1].severity = "CRITICAL"
    /\ Persisted[1].impactScore = 60
    /\ "metrics" \in DOMAIN Persisted[2]
    /\ DOMAIN Persisted[2].metrics = {}
    /\ Persisted[2].severity = "None"

\* C9 as stated: with more than one schema the newest one decides
C9_NewestFirst ==
    \A k \in 1..Len(Persisted) :
        ("metrics" \in DOMAIN Persisted[k]
         /\ Cardinality(DOMAIN Persisted[k].metrics) # 1) =>
            <<Persisted[k].severity, Persisted[k].impactScore>>
            = FirstOf(<<"cvssMetricV31", "cvssMetricV30", "cvssMetricV2">>,
                      Persisted[k].metrics)

\* C9 amended: with more than one schema, v3.0 decides when it is present
\* and v3.1 otherwise; without any schema the result is "None" and 0
C9_OldestV3First ==
    \A k \in 1..Len(Persisted) :
        "metrics" \in DOMAIN Persisted[k] =>
            LET metrics == Persisted[k].metrics
                derived == <<Persisted[k].severity, Persisted[k].impactScore>>
            IN  /\ Cardinality(DOMAIN metrics) = 0 => derived = <<"None", 0>>
                /\ Cardinality(DOMAIN metrics) > 1 =>
                      derived = IF "cvssMetricV30" \in DOMAIN metrics
                                THEN <<metrics.cvssMetricV30[1].cvssData.baseSeverity,
                                       metrics.cvssMetricV30[1].impactScore>>
                                ELSE <<metrics.cvssMetricV31[1].cvssData.baseSeverity,
                                       metrics.cvssMetricV31[1].impactScore>>

\* an item enriched from metrics with both v3 schemas
C9_Witness ==
    \E k \in 1..Len(Persisted) :
        /\ "metrics" \in DOMAIN Persisted[k]
        /\ DOMAIN Persisted[k].metrics = {"cvssMetricV30", "cvssMetricV31"}
        /\ Persisted[k].severity = "HIGH"
        /\ Persisted[k].impactScore = 59

\* C10 as stated: whatever the cached documents lack, process writes one
\* release for every document of the batch
C10_NeverAborts ==
    processLog # "none" =>
        /\ processLog = "written"
        /\ Len(releaseNotes[1])
           = Cardinality({file \in DOMAIN cache : file # "index.html"})

\* C11 as stated: a cve run in which a lookup failed has nevertheless gone on
\* to every following security item, so that when it ends every item that
\* entered the run without metrics has been looked up
C11_ContinuesAfterFailure ==
    (pc = "idle" /\ prior = "failed") =>
        \A k \in 1..Len(runStart) :
            "metrics" \notin DOMAIN runStart[k] => k \in looked

\* C16: with the single cached release document for 16.1 that holds the
\* paragraph "Release date: 2023-11-09" and the one list item "Fix crash in
\* parser (Carol)", the summary of format holds exactly one bugs entry, with
\* the title without the attribution, an empty description, fixedIn 16.1, not
\* significant, contributor Carol; the other buckets are empty and
\* versionDates maps 16.1 to 2023-11-09
C16_EndToEnd ==
    (summary # <<>>
     /\ DOMAIN cache \ {"index.html"} = {"16.1.html"}
     /\ cache["16.1.html"] = Doc161Single) =>
        /\ summary[1].bugs = <<[title |-> "Fix crash in parser",
                                description |-> "",
                                fixedIn |-> "16.1",
                                significant |-> FALSE,
                                contributors |-> <<"Carol">>]>>
        /\ summary[1].security = <<>>
        /\ summary[1].features = <<>>
        /\ summary[1].performance = <<>>
        /\ DOMAIN summary[1].versionDates = {"16.1"}
        /\ summary[1].versionDates["16.1"] = "2023-11-09"

\* process and format have run over the cache that holds only that document
C16_Witness ==
    /\ DOMAIN cache = {"16.1.html"}
    /\ cache["16.1.html"].paragraphs = <<"Release date: 2023-11-09">>
    /\ cache["16.1.html"].listitems = <<"Fix crash in parser (Carol)">>
    /\ processLog = "written"
    /\ summary # <<>>
    /\ Len(summary[1].bugs) = 1

\* the characters of file names in code-unit order
Alphabet == ".0123456789abcdefghijklmnopqrstuvwxyz"

\* a precedes b in lexical order
LexLess(a, b) ==
    \E i \in 1..(Min({Len(a), Len(b)}) + 1) :
        /\ SubSeq(a, 1, i - 1) = SubSeq(b, 1, i - 1)
        /\ \/ i > Len(a) /\ i <= Len(b)
           \/ /\ i <= Len(a) /\ i <= Len(b)
              /\ IndexOf(Alphabet, CharAt(a, i)) < IndexOf(Alphabet, CharAt(b, i))

\* the file names of the directory in lexical order
SortedFiles(dir) ==
    CHOOSE listing \in Listings(dir) :
        \A i, j \in DOMAIN listing : i < j => LexLess(listing[i], listing[j])

\* C15 as stated: whatever order the directory listing has, process writes
\* the releases in the lexical order of their file names, so that every run
\* over the same cache writes the same release_notes.json
C15_LexicalOrder ==
    processLog = "written" =>
        releaseNotes[1] = ProcessOutcome[<<cache, SortedFiles(cache)>>][1]

(***************************************************************************)
(* categorizeChanges as processReleaseNotes applies it, on its own         *)
(***************************************************************************)

MaxChanges == 2

\* change items as the Text Normalizer leaves them
ChangePool ==
    {"Fix crash in parser (Carol)",
     "Stop leak (CVE-2023-1234)",
     "Improve sort speed",
     "Add new option",
     "Fix new option",
     "Better new feature",
     "Update docs",
     "Support new API"}

VersionPool == {"16.0", "16.1", ""}

ChangeLists == UNION {[1..n -> ChangePool] : n \in 0..MaxChanges}

InitClassify ==
    /\ cache = [f \in {} |-> DocIndex]
    /\ releaseNotes = <<>>
    /\ summary = <<>>
    /\ processLog = "none"
    /\ pc = "idle"
    /\ cveData = <<>>
    /\ mem = <<>>
    /\ idx = 0
    /\ runStart = <<>>
    /\ delayed = {}
    /\ looked = {}
    /\ prior = "none"
    /\ ScrapeIdle
    /\ \E version \in VersionPool, changes \in ChangeLists :
          input = <<[version |-> version, releaseDate |-> "2023-09-14",
                     changes |-> changes]>>
    /\ output = <<>>

\* the map callback of processReleaseNotes applied to the release
Classify ==
    /\ output = <<>>
    /\ output' = <<ProcessRelease(input[1])>>
    /\ UNCHANGED <<cache, files, processLog, cveRun, input, scraping>>

NextClassify == Classify

SpecClassify == InitClassify /\ [][NextClassify]_vars

\* how often bucket holds the item
Count(item, bucket) == Cardinality({k \in 1..Len(bucket) : bucket[k] = item})

\* the buckets that hold the item
BucketsOf(item, categories) ==
    {c \in DOMAIN categories : Count(item, categories[c]) > 0}

\* lowerChange.includes(word) for some word of the list
Matches(item, words) ==
    \E k \in 1..Len(words) : Includes(ToLowerCase(item), words[k])

\* C1: the four buckets partition the input: their lengths sum to the input
\* length, the buckets are exactly security, performance, features and bugs,
\* and every item occurs in them as often as in the input
C1_Partition ==
    output # <<>> =>
        LET changes == input[1].changes
            categories == output[1].categories
        IN  /\ DOMAIN categories = {"security", "performance", "features", "bugs"}
            /\ Len(categories.security) + Len(categories.performance)
               + Len(categories.features) + Len(categories.bugs) = Len(changes)
            /\ \A item \in ChangePool :
                  Count(item, categories.security) + Count(item, categories.performance)
                  + Count(item, categories.features) + Count(item, categories.bugs)
                  = Count(item, changes)

\* two items classified into two different buckets, one of them by fallback
C1_Witness ==
    /\ output # <<>>
    /\ input[1].changes = <<"Stop leak (CVE-2023-1234)", "Update docs">>
    /\ output[1].categories.security = <<"Stop leak (CVE-2023-1234)">>
    /\ output[1].categories.bugs = <<"Update docs">>

\* C2 as stated: for a major release the tests run security, performance,
\* features and bugs is only the fallback
C2_FeaturesBeforeBugs ==
    (output # <<>> /\ EndsWith(input[1].version, ".0")) =>
        \A item \in {input[1].changes[k] : k \in 1..Len(input[1].changes)} :
            BucketsOf(item, output[1].categories) =
                {IF Matches(item, SecurityWords) THEN "security"
                 ELSE IF Matches(item, PerformanceWords) THEN "performance"
                 ELSE IF Matches(item, FeatureWords) THEN "features"
                 ELSE "bugs"}

\* C2 amended: for a major release the tests run security, performance, the
\* bugs keywords, features; the first match wins and bugs is also the
\* fallback, so an item lands in features only if it matches a features
\* keyword and no security, performance or bugs keyword
C2_BugsBeforeFeatures ==
    (output # <<>> /\ EndsWith(input[1].version, ".0")) =>
        \A item \in {input[1].changes[k] : k \in 1..Len(input[1].changes)} :
            BucketsOf(item, output[1].categories) =
                {IF Matches(item, SecurityWords) THEN "security"
                 ELSE IF Matches(item, PerformanceWords) THEN "performance"
                 ELSE IF Matches(item, BugWords) THEN "bugs"
                 ELSE IF Matches(item, FeatureWords) THEN "features"
                 ELSE "bugs"}

\* a major release with an item that matches a features keyword only and one
\* that matches a bugs keyword too
C2_Witness ==
    /\ output # <<>>
    /\ input[1].version = "16.0"
    /\ input[1].changes = <<"Add new option", "Fix new option">>
    /\ output[1].categories.features = <<"Add new option">>
    /\ output[1].categories.bugs = <<"Fix new option">>

\* C3: for a version that does not end in ".0" the performance and features
\* buckets are empty, and every item that holds no "cve" is in bugs
C3_PointReleaseGate ==
    (output # <<>> /\ ~EndsWith(input[1].version, ".0")) =>
        /\ output[1].categories.performance = <<>>
        /\ output[1].categories.features = <<>>
        /\ \A item \in {input[1].changes[k] : k \in 1..Len(input[1].changes)} :
              ~Includes(ToLowerCase(item), "cve")
                  => BucketsOf(item, output[1].categories) = {"bugs"}

\* a point release with an item that holds "new feature", classified as bugs
C3_Witness ==
    /\ output # <<>>
    /\ input[1].version = "16.1"
    /\ \E k \in 1..Len(input[1].changes) :
          /\ Includes(ToLowerCase(input[1].changes[k]), "new feature")
          /\ Count(input[1].changes[k], output[1].categories.bugs) > 0

(***************************************************************************)
(* update-links on its own, run repeatedly on a summary file               *)
(***************************************************************************)

MaxPasses == 2

\* titles and descriptions as a summary file can hold them
LinkTexts ==
    {"Fix crash in parser",
     "Improve [VACUUM](vacuum.html) speed",
     "Improve [VACUUM](https://www.postgresql.org/docs/16/vacuum.html) speed",
     "See [a](a.html) and [b](http://x.org/b.html#top)",
     "Fix (see (app-psql.html))",
     "See [httpd](httpd.html)",
     "Fix sort (Alice)"}

\* summary files with one item, in the bugs or in the features bucket
LinkSummaries ==
    {[EmptySummary EXCEPT !.bugs =
         <<[title |-> title, description |-> description, fixedIn |-> version,
            significant |-> FALSE, contributors |-> <<>>]>>] :
        title \in LinkTexts, description \in LinkTexts \cup {""},
        version \in {"16.1", ""}}
    \cup
    {[EmptySummary EXCEPT !.features =
         <<[title |-> title, description |-> description, sinceVersion |-> version,
            significant |-> FALSE, contributors |-> <<>>]>>] :
        title \in LinkTexts, description \in LinkTexts \cup {""},
        version \in {"16.1", ""}}

InitLinks ==
    /\ cache = [f \in {} |-> DocIndex]
    /\ releaseNotes = <<>>
    /\ \E json \in LinkSummaries : summary = <<json>> /\ input = <<json>>
    /\ processLog = "none"
    /\ pc = "idle"
    /\ cveData = <<>>
    /\ mem = <<>>
    /\ idx = 0
    /\ runStart = <<>>
    /\ delayed = {}
    /\ looked = {}
    /\ prior = "none"
    /\ output = <<>>
    /\ ScrapeIdle

\* update-links, with the content it wrote appended to output
RewriteLinks ==
    /\ Len(output) < MaxPasses
    /\ summary # <<>>
    /\ summary' = WriteFile(summary, UpdateSummary(summary[1]))
    /\ output' = Append(output, summary'[1])
    /\ UNCHANGED <<cache, releaseNotes, processLog, cveRun, input, scraping>>

NextLinks == RewriteLinks

SpecLinks == InitLinks /\ [][NextLinks]_vars

\* the items of a summary, bucket after bucket
ItemsOf(json) == json.bugs \o json.features \o json.performance \o json.security

\* the contents of the parenthesized groups of text that hold ".html"
HtmlGroups(text) ==
    {SubSeq(text, i + 1, NextClose(text, i) - 1) : i \in LinkMatches(text)}

\* every parenthesized .html group of text starts with "http://" or "https://"
OnlyAbsolute(text) ==
    \A target \in HtmlGroups(text) :
        StartsWith(target, "http://") \/ StartsWith(target, "https://")

\* C13: every further pass of update-links writes exactly what the first
\* pass wrote: no URL is prefixed again, no title or description changes
C13_SecondPassIdentical ==
    \A k \in 2..Len(output) : output[k] = output[1]

\* two passes over a summary whose description held a relative link, which
\* the first pass made absolute
C13_Witness ==
    /\ Len(output) = 2
    /\ ItemsOf(input[1])[1].description = "Improve [VACUUM](vacuum.html) speed"
    /\ ItemsOf(output[1])[1].description
         = "Improve [VACUUM](https://www.postgresql.org/docs/16/vacuum.html) speed"
    /\ ItemsOf(summary[1])[1].description = ItemsOf(output[1])[1].description

FragmentHeads ==
    {"Fix bug in index", "Stop leak", "See https://example.com/foo", "\nSee details"}

\* trailing parenthesized groups of a line
FragmentGroups ==
    {"", " (Alice, Bob)", " (CVE-2023-1234)", " (readme)", " (Alice, Alice)",
     " (Alice,Bob)", " (https://example.com/foo)"}

\* what follows the first line
FragmentTails ==
    {"", "\nSee notes (Tom)", "\nAffects CVE-2024-99999 too (www.example.com)"}

\* fragments as the Text Normalizer leaves them
FragmentPool ==
    {head \o group \o tail :
        head \in FragmentHeads, group \in FragmentGroups, tail \in FragmentTails}

InitParse ==
    /\ cache = [f \in {} |-> DocIndex]
    /\ releaseNotes = <<>>
    /\ summary = <<>>
    /\ processLog = "none"
    /\ pc = "idle"
    /\ cveData = <<>>
    /\ mem = <<>>
    /\ idx = 0
    /\ runStart = <<>>
    /\ delayed = {}
    /\ looked = {}
    /\ prior = "none"
    /\ \E item \in FragmentPool, version \in {"16.0", "16.1"} :
          input = <<[item |-> item, version |-> version]>>
    /\ output = <<>>
    /\ ScrapeIdle

\* const security = parseSecurityItem(item, version)
ParseSecurity ==
    /\ output = <<>>
    /\ output' = <<parseSecurityItem(input[1].item, input[1].version)>>
    /\ UNCHANGED <<cache, files, processLog, cveRun, input, scraping>>

\* const bug = parseBugItem(item, version)
ParseBug ==
    /\ output = <<>>
    /\ output' = <<parseBugItem(input[1].item, input[1].version)>>
    /\ UNCHANGED <<cache, files, processLog, cveRun, input, scraping>>

\* const feature = parseFeatureItem(item, version)
ParseFeature ==
    /\ output = <<>>
    /\ output' = <<parseFeatureItem(input[1].item, input[1].version)>>
    /\ UNCHANGED <<cache, files, processLog, cveRun, input, scraping>>

\* const improvement = parsePerformanceItem(item, version)
ParsePerformance ==
    /\ output = <<>>
    /\ output' = <<parsePerformanceItem(input[1].item, input[1].version)>>
    /\ UNCHANGED <<cache, files, processLog, cveRun, input, scraping>>

NextParse ==
    \/ ParseSecurity
    \/ ParseBug
    \/ ParseFeature
    \/ ParsePerformance

SpecParse == InitParse /\ [][NextParse]_vars

\* the positions of the "(" that open a parenthesized group of s without a
\* parenthesis inside
GroupStarts(s) ==
    {i \in 1..Len(s) :
        /\ CharAt(s, i) = "("
        /\ NextParen(s, i) # 0
        /\ CharAt(s, NextParen(s, i)) = ")"}

\* the contents of the group that opens at position i
GroupAt(s, i) == SubSeq(s, i + 1, NextParen(s, i) - 1)

\* the group looks neither like a URL nor like a CVE reference
Attribution(group) ==
    ~Includes(group, "http") /\ ~Includes(group, "www.") /\ ~Includes(group, "CVE-")

\* C17 as stated: the contributors are the names of the last parenthesized
\* group of the fragment that looks neither like a URL nor like a CVE
\* reference, whatever the groups before and after it, and the empty sequence
\* only when the fragment has no such group
C17_LastQualifyingGroup ==
    output # <<>> =>
        LET item == input[1].item
            at == {i \in GroupStarts(item) : Attribution(GroupAt(item, i))}
        IN  IF at = {} THEN output[1].contributors = <<>>
            ELSE output[1].contributors = Split(Trim(GroupAt(item, Max(at))), ", ")

\* C18 as stated: "See https://example.com/foo (readme)" yields no contributor
C18_ReadmeYieldsNone ==
    (output # <<>> /\ input[1].item = "See https://example.com/foo (readme)")
        => output[1].contributors = <<>>

\* C18 amended: "See https://example.com/foo (readme)" yields the one
\* contributor "readme": the URL stands outside the parenthesized group, and
\* the group itself holds neither "http" nor "www." nor "CVE-"
C18_ReadmeYieldsReadme ==
    (output # <<>> /\ input[1].item = "See https://example.com/foo (readme)")
        => output[1].contributors = <<"readme">>

\* the fragment has been parsed as a bug item
C18_Witness ==
    /\ output # <<>>
    /\ input[1].item = "See https://example.com/foo (readme)"
    /\ "fixedIn" \in DOMAIN output[1]
    /\ "cve" \notin DOMAIN output[1]
    /\ output[1].title = "See https://example.com/foo"
    /\ Len(output[1].contributors) = 1

\* s is CVE-, four digits, -, and one or more digits
IsCveId(s) ==
    /\ Len(s) >= 10
    /\ SubSeq(s, 1, 4) = "CVE-"
    /\ \A k \in 5..8 : IsDigit(CharAt(s, k))
    /\ CharAt(s, 9) = "-"
    /\ \A k \in 10..Len(s) : IsDigit(CharAt(s, k))

\* the positions of s at which a substring of that form starts
CveStarts(s) ==
    {i \in 1..Len(s) : \E e \in i..Len(s) : IsCveId(SubSeq(s, i, e))}

\* C19: the cve field of a security item is null exactly when the fragment
\* holds no substring CVE-<4 digits>-<digits>; otherwise it is the substring
\* of that form that starts first in the fragment and runs to the end of its
\* digits
C19_FirstCveOrNull ==
    (output # <<>> /\ "cve" \in DOMAIN output[1]) =>
        LET item == input[1].item
            cve == output[1].cve
        IN  /\ cve = Null <=> CveStarts(item) = {}
            /\ cve # Null =>
                  LET i == Min(CveStarts(item))
                  IN  /\ IsCveId(cve)
                      /\ SubSeq(item, i, i + Len(cve) - 1) = cve
                      /\ ~IsDigit(CharAt(item, i + Len(cve)))

\* a security item parsed from a fragment with two identifiers, and the
\* first one taken
C19_Witness ==
    /\ output # <<>>
    /\ "cve" \in DOMAIN output[1]
    /\ input[1].item
         = "Stop leak (CVE-2023-1234)\nAffects CVE-2024-99999 too (www.example.com)"
    /\ output[1].cve = "CVE-2023-1234"

\* C20 as stated: the contributors of a fragment are the contents of the
\* attribution group split at every comma, in source order, and no name
\* occurs twice; "Fix bug in index (Alice, Bob)" yields Alice and Bob
C20_SplitDistinct ==
    output # <<>> =>
        LET item == input[1].item
            names == output[1].contributors
        IN  /\ \A k \in 1..Len(names) : ~Includes(names[k], ",")
            /\ \A i, j \in 1..Len(names) : names[i] = names[j] => i = j
            /\ \A i, j \in 1..Len(names) :
                  i < j => IndexOf(item, names[i]) < IndexOf(item, names[j])
            /\ item = "Fix bug in index (Alice, Bob)" => names = <<"Alice", "Bob">>

\* C21 as stated: the title is the text up to the first line break of the
\* fragment (less the attribution that is stripped from it) and the
\* description is everything after that line break, trimmed, wherever the
\* line break is, the first character included; without a line break the
\* title is the whole fragment and the description is empty
C21_SplitAtFirstLineBreak ==
    output # <<>> =>
        LET item == input[1].item
            break == IndexOf(item, "\n")
        IN  IF break = 0
            THEN /\ StartsWith(item, output[1].title)
                 /\ output[1].description = ""
            ELSE /\ StartsWith(Trim(SubSeq(item, 1, break - 1)), output[1].title)
                 /\ output[1].description = Trim(Slice(item, break + 1))

(***************************************************************************)
(* The earlier script (part_000): categorizeChanges, extractContributors   *)
(* and formatReleaseNotes, whose output carries the aggregate contributors *)
(***************************************************************************)

\* the keyword table of the earlier categorizeChanges, in insertion order
keywordsLegacy ==
    << [category |-> "performance",
        words |-> <<"performance", "speed", "faster", "optimization">>],
       [category |-> "security",
        words |-> <<"security", "vulnerability", "CVE", "exploit">>],
       [category |-> "features",
        words |-> <<"new feature", "added", "introduced", "now supports">>] >>

\* the bucket the earlier categorizeChanges pushes the change to
CategoryOfLegacy(change) ==
    LET hits == {k \in 1..Len(keywordsLegacy) :
                    SomeWord(keywordsLegacy[k].words, ToLowerCase(change))}
    IN  IF hits = {} THEN "other" ELSE keywordsLegacy[Min(hits)].category

categorizeChangesLegacy(changes, migrationInfo) ==
    [category \in {"performance", "security", "features", "migration", "other"} |->
        IF category = "migration" THEN migrationInfo
        ELSE SelectSeq(changes, LAMBDA change : CategoryOfLegacy(change) = category)]

\* item.match(/\(([^)]+)\)$/): the leftmost "(" from which no ")" stands
\* before the ")" that ends the item; split(",") and trim of each name
extractContributorsLegacy(item) ==
    LET at == {i \in 1..(Len(item) - 2) :
                  /\ CharAt(item, i) = "("
                  /\ CharAt(item, Len(item)) = ")"
                  /\ \A k \in (i + 1)..(Len(item) - 1) : CharAt(item, k) # ")"}
        names == Split(SubSeq(item, Min(at) + 1, Len(item) - 1), ",")
    IN  IF at = {} THEN <<>> ELSE [k \in 1..Len(names) |-> Trim(names[k])]

\* item.match(/CVE-\d{4}-\d{4,7}/): the leftmost match with up to 7 digits
CveOfLegacy(item) ==
    LET at == {i \in 1..(Len(item) - 12) :
                  /\ SubSeq(item, i, i + 3) = "CVE-"
                  /\ \A k \in (i + 4)..(i + 7) : IsDigit(CharAt(item, k))
                  /\ CharAt(item, i + 8) = "-"
                  /\ \A k \in (i + 9)..(i + 12) : IsDigit(CharAt(item, k))}
        i == Min(at)
        last == Max({e \in (i + 12)..Min({i + 15, Len(item)}) :
                        \A k \in (i + 9)..e : IsDigit(CharAt(item, k))})
    IN  IF at = {} THEN Null ELSE SubSeq(item, i, last)

\* contributors.forEach(contributor => formattedData.contributors.add(...)):
\* a Set keeps insertion order and ignores a value it holds
RECURSIVE AddAll(_, _)
AddAll(set, names) ==
    IF names = <<>> THEN set
    ELSE AddAll(IF \E k \in 1..Len(set) : set[k] = Head(names)
                THEN set ELSE Append(set, Head(names)),
                Tail(names))

\* the contributors of the items, added in order
RECURSIVE AddItems(_, _)
AddItems(set, items) ==
    IF items = <<>> THEN set
    ELSE AddItems(AddAll(set, extractContributorsLegacy(Head(items))), Tail(items))

\* the body of releaseData.forEach of formatReleaseNotes for one release
AddReleaseLegacy(formattedData, release) ==
    [bugs |-> formattedData.bugs \o
        [k \in 1..Len(release.categories.security) |->
            LET item == release.categories.security[k]
            IN  [cve |-> CveOfLegacy(item), title |-> Split(item, ".")[1],
                 description |-> item, fixedIn |-> release.version,
                 contributors |-> extractContributorsLegacy(item)]],
     features |-> formattedData.features \o
        [k \in 1..Len(release.categories.features) |->
            LET item == release.categories.features[k]
            IN  [title |-> Split(item, ".")[1], description |-> item,
                 sinceVersion |-> release.version,
                 contributors |-> extractContributorsLegacy(item)]],
     performanceImprovements |-> formattedData.performanceImprovements \o
        [k \in 1..Len(release.categories.performance) |->
            LET item == release.categories.performance[k]
            IN  [title |-> Split(item, ".")[1], description |-> item,
                 sinceVersion |-> release.version,
                 significant |-> Includes(ToLowerCase(item), "significant"),
                 contributors |-> extractContributorsLegacy(item)]],
     contributors |->
        AddItems(AddItems(AddItems(AddItems(formattedData.contributors,
                                            release.categories.security),
                                   release.categories.features),
                          release.categories.performance),
                 release.categories.other)]

RECURSIVE FormatLoop(_, _)
FormatLoop(formattedData, releaseData) ==
    IF releaseData = <<>> THEN formattedData
    ELSE FormatLoop(AddReleaseLegacy(formattedData, Head(releaseData)),
                    Tail(releaseData))

formatReleaseNotes(releaseData) ==
    FormatLoop([bugs |-> <<>>, features |-> <<>>, performanceImprovements |-> <<>>,
                contributors |-> <<>>],
               releaseData)

(***************************************************************************)
(* Classification and aggregation of parsed releases, on their own         *)
(***************************************************************************)

MaxReleases == 2

\* releases as parseReleaseNotes returns them
ReleasePool ==
    {[version |-> "16.0", releaseDate |-> "2023-09-14",
      changes |-> <<"Fix crash in parser (Carol)", "Fix leak in sort (Alice, Bob)",
                    "Improve sort speed (Alice)">>],
     [version |-> "16.1", releaseDate |-> "2023-11-09",
      changes |-> <<"Fix overflow in index (Bob)", "Stop leak (CVE-2023-1234)",
                    "Fix typo (Carol, Dave)">>],
     [version |-> "17.0", releaseDate |-> "2024-09-26",
      changes |-> <<"Add new option (Eve)", "Close security hole CVE-2024-1111 (Eve)",
                    "Added new feature for copy (Alice)">>],
     [version |-> "16.0", releaseDate |-> "2023-09-15",
      changes |-> <<"Improve vacuum speed (Bob)", "Reduce memory use (Bob)">>],
     [version |-> "", releaseDate |-> "2022-01-01",
      changes |-> <<"Fix bug in index (Alice, Bob)">>],
     [version |-> "14.0", releaseDate |-> "2021-09-30",
      changes |-> <<"Stop cve abuse (Dave)", "Stop security leak CVE-2024-99999 (Tom)">>]}

InitAggregate ==
    /\ cache = [f \in {} |-> DocIndex]
    /\ releaseNotes = <<>>
    /\ summary = <<>>
    /\ processLog = "none"
    /\ pc = "idle"
    /\ cveData = <<>>
    /\ mem = <<>>
    /\ idx = 0
    /\ runStart = <<>>
    /\ delayed = {}
    /\ looked = {}
    /\ prior = "none"
    /\ \E releaseData \in UNION {[1..n -> ReleasePool] : n \in 0..MaxReleases} :
          input = <<releaseData>>
    /\ output = <<>>
    /\ ScrapeIdle

\* processReleaseNotes after parseReleaseNotes has returned releaseData:
\* the releases are classified and release_notes.json is written
Categorize ==
    /\ releaseNotes = <<>>
    /\ releaseNotes' = WriteFile(releaseNotes,
                                 [k \in 1..Len(input[1]) |-> ProcessRelease(input[1][k])])
    /\ processLog' = "written"
    /\ UNCHANGED <<cache, summary, cveRun, harness, scraping>>

\* generateSummary: the summary of release_notes.json is written
Summarise ==
    /\ releaseNotes # <<>>
    /\ summary = <<>>
    /\ summary' = WriteFile(summary, Summarize(EmptySummary, releaseNotes[1]))
    /\ UNCHANGED <<cache, releaseNotes, processLog, cveRun, harness, scraping>>

\* processReleaseNotes of the earlier script after parseReleaseNotes has
\* returned releaseData: the releases are classified and formatted
FormatLegacy ==
    /\ output = <<>>
    /\ output' = <<formatReleaseNotes(
                      [k \in 1..Len(input[1]) |->
                          [version |-> input[1][k].version,
                           categories |->
                              categorizeChangesLegacy(input[1][k].changes, <<>>)]])>>
    /\ UNCHANGED <<cache, files, processLog, cveRun, input, scraping>>

NextAggregate ==
    \/ Categorize
    \/ Summarise
    \/ FormatLegacy

SpecAggregate == InitAggregate /\ [][NextAggregate]_vars

\* the changes of the parsed releases that belong to the bucket, each with
\* its release's version, in input order
RECURSIVE InputItems(_, _)
InputItems(releaseData, bucket) ==
    IF releaseData = <<>> THEN <<>>
    ELSE LET release == Head(releaseData)
             own == SelectSeq(release.changes,
                              LAMBDA change :
                                  CategoryOf(change, EndsWith(release.version, ".0")) = bucket)
         IN  [k \in 1..Len(own) |-> [item |-> own[k], version |-> release.version]]
             \o InputItems(Tail(releaseData), bucket)

\* the version a summary record names
RecordVersion(record) ==
    IF "fixedIn" \in DOMAIN record THEN record.fixedIn ELSE record.sinceVersion

\* C22: in every bucket of the summary produced by format, the records
\* stand in the order of the input: releases in processing order and,
\* within one release, the changes in extraction order; process keeps that
\* order in every category of the intermediate file
C22_InputOrderKept ==
    /\ releaseNotes # <<>> =>
           \A r \in 1..Len(releaseNotes[1]) : \A bucket \in Categories :
               releaseNotes[1][r].categories[bucket]
                   = [k \in 1..Len(InputItems(<<input[1][r]>>, bucket)) |->
                         InputItems(<<input[1][r]>>, bucket)[k].item]
    /\ summary # <<>> =>
           \A bucket \in Categories :
               LET expected == InputItems(input[1], bucket)
                   records == summary[1][bucket]
               IN  /\ Len(records) = Len(expected)
                   /\ \A k \in 1..Len(records) :
                          /\ RecordVersion(records[k]) = expected[k].version
                          /\ records[k].title
                                 = extractTitleDescription(expected[k].item).title

\* a bucket holds records of two releases, two of them of the same release
C22_Witness ==
    /\ summary # <<>>
    /\ \E bucket \in Categories :
           LET records == summary[1][bucket]
           IN  /\ Len(records) >= 3
               /\ RecordVersion(records[1]) = RecordVersion(records[2])
               /\ records[1].title # records[2].title
               /\ RecordVersion(records[3]) # RecordVersion(records[1])

\* the classified items of the bucket in release_notes.json, each with its
\* release's version
RECURSIVE Classified(_, _)
Classified(releases, bucket) ==
    IF releases = <<>> THEN <<>>
    ELSE [k \in 1..Len(Head(releases).categories[bucket]) |->
             [item |-> Head(releases).categories[bucket][k],
              version |-> Head(releases).version]]
         \o Classified(Tail(releases), bucket)

\* C23: format maps every classified item of every release to one record
\* of the bucket of the same name: as many records as classified items, a
\* security or bugs record with fixedIn, a features or performance record
\* with sinceVersion, equal to the version of the item's release
C23_OneRecordPerItem ==
    summary # <<>> =>
        \A bucket \in Categories :
            LET classified == Classified(releaseNotes[1], bucket)
                records == summary[1][bucket]
            IN  /\ Len(records) = Len(classified)
                /\ \A k \in 1..Len(records) :
                       /\ records[k].description
                              = extractTitleDescription(classified[k].item).description
                       /\ IF bucket \in {"security", "bugs"}
                          THEN /\ "fixedIn" \in DOMAIN records[k]
                               /\ "sinceVersion" \notin DOMAIN records[k]
                               /\ records[k].fixedIn = classified[k].version
                          ELSE /\ "sinceVersion" \in DOMAIN records[k]
                               /\ "fixedIn" \notin DOMAIN records[k]
                               /\ records[k].sinceVersion = classified[k].version

\* the summary of two releases holds records in all four buckets
C23_Witness ==
    /\ summary # <<>>
    /\ Len(releaseNotes[1]) = 2
    /\ \A bucket \in Categories : summary[1][bucket] # <<>>

\* sequence c lists every value of sequence a once, by first occurrence
FirstOccurrences(c, a) ==
    LET first(x) == Min({i \in 1..Len(a) : a[i] = x})
    IN  /\ {c[k] : k \in 1..Len(c)} = {a[i] : i \in 1..Len(a)}
        /\ \A j, k \in 1..Len(c) : j < k => first(c[j]) < first(c[k])

\* the contributors of all records of the summary: release by release and,
\* in one release, security, features, performance, bugs as format pushes
RECURSIVE RecordNames(_)
RecordNames(records) ==
    IF records = <<>> THEN <<>>
    ELSE Head(records).contributors \o RecordNames(Tail(records))

\* C24: the output of the Aggregator (release_notes_formatted.json as
\* generateSummary writes it) contains a contributor set, the deduplicated
\* union in first-occurrence order of the contributors of all items
C24_ContributorSet ==
    summary # <<>> =>
        /\ "contributors" \in DOMAIN summary[1]
        /\ \E order \in {<<"security", "features", "performance", "bugs">>,
                         <<"bugs", "features", "performance", "security">>} :
               FirstOccurrences(summary[1].contributors,
                                RecordNames(summary[1][order[1]] \o summary[1][order[2]]
                                            \o summary[1][order[3]] \o summary[1][order[4]]))

\* the names of the items of the earlier script's categories, in the order
\* in which formatReleaseNotes visits them
RECURSIVE NamesLegacy(_)
NamesLegacy(releaseData) ==
    IF releaseData = <<>> THEN <<>>
    ELSE LET categories == categorizeChangesLegacy(Head(releaseData).changes, <<>>)
             visited == categories.security \o categories.features
                        \o categories.performance \o categories.other
             RECURSIVE names(_)
             names(items) ==
                 IF items = <<>> THEN <<>>
                 ELSE extractContributorsLegacy(Head(items)) \o names(Tail(items))
         IN  names(visited) \o NamesLegacy(Tail(releaseData))

\* the earlier script is the one that writes the set: its contributors are
\* the names of all items, each once, by first occurrence in visiting order
ContributorsLegacyDeduplicated ==
    output # <<>> =>
        /\ "contributors" \in DOMAIN output[1]
        /\ FirstOccurrences(output[1].contributors, NamesLegacy(input[1]))

\* the target starts with an absolute-URL scheme: a letter, then letters,
\* digits, "+", "-" or ".", then ":"
StartsWithScheme(target) ==
    \E k \in 2..Len(target) :
        /\ CharAt(target, k) = ":"
        /\ Includes("abcdefghijklmnopqrstuvwxyz", CharAt(target, 1))
        /\ \A j \in 1..(k - 1) :
               Includes("abcdefghijklmnopqrstuvwxyz0123456789+-.", CharAt(target, j))

\* the parenthesized references of text to a .html target: the groups
\* without a parenthesis inside that hold ".html"
References(text) ==
    {SubSeq(text, i + 1, NextClose(text, i) - 1) :
        i \in {i \in 1..Len(text) :
                  /\ CharAt(text, i) = "("
                  /\ NextClose(text, i) > i + 1
                  /\ ~Includes(SubSeq(text, i + 1, NextClose(text, i) - 1), "(")
                  /\ Includes(SubSeq(text, i + 1, NextClose(text, i) - 1), ".html")}}

\* the text before the first "." of the item's fixedIn, else of its
\* sinceVersion, else "0"
MajorOf(item) ==
    LET version ==
            IF "fixedIn" \in DOMAIN item /\ item.fixedIn # "" THEN item.fixedIn
            ELSE IF "sinceVersion" \in DOMAIN item /\ item.sinceVersion # ""
                 THEN item.sinceVersion
            ELSE "0"
    IN  IF IndexOf(version, ".") = 0 THEN version
        ELSE SubSeq(version, 1, IndexOf(version, ".") - 1)

\* C25: after a pass of the Link Rewriter, every parenthesized reference of
\* a description to a .html target that starts with no absolute-URL scheme
\* stands prefixed with https://www.postgresql.org/docs/<major>/, <major>
\* taken from the item's fixedIn, else its sinceVersion, else "0"
C25_RelativePrefixed ==
    output # <<>> =>
        \A k \in 1..Len(ItemsOf(input[1])) :
            LET before == ItemsOf(input[1])[k]
                after == ItemsOf(output[1])[k]
                docs == "https://www.postgresql.org/docs/" \o MajorOf(before) \o "/"
            IN  \A target \in References(before.description) :
                    ~StartsWithScheme(target)
                        => Includes(after.description, "(" \o docs \o target \o ")")

\* the bracketed labels of the links of text: "[label]" right before a
\* parenthesized group that holds ".html"
LinkLabels(text) ==
    {SubSeq(text, i, j) :
        i \in {i \in 1..Len(text) : CharAt(text, i) = "["},
        j \in {j \in 1..Len(text) : CharAt(text, j) = "]" /\ (j + 1) \in LinkMatches(text)}}
    \ {label \in {SubSeq(text, i, j) : i, j \in 1..Len(text)} :
          Len(label) < 2 \/ Includes(SubSeq(label, 2, Len(label)), "[")}

\* C26: after a pass of the Link Rewriter no title holds residual text of
\* a link, neither a parenthesized .html target nor the bracketed markup of
\* a link it held, and every parenthesized .html reference of a description
\* is absolute
C26_TitlesCleanDescriptionsAbsolute ==
    output # <<>> =>
        \A k \in 1..Len(ItemsOf(input[1])) :
            LET before == ItemsOf(input[1])[k]
                after == ItemsOf(output[1])[k]
            IN  /\ References(after.title) = {}
                /\ \A label \in LinkLabels(before.title) : ~Includes(after.title, label)
                /\ \A target \in References(after.description) : StartsWithScheme(target)

(***************************************************************************)
(* The Text Normalizer of parseReleaseNotes, on its own                    *)
(***************************************************************************)

MaxLinks == 2

\* href values of the anchors of a list item
HrefPool ==
    {"app-psql.html", "release-16.html#id", "#anchor",
     "https://www.postgresql.org/docs/16/x.html", "http://example.com/",
     "httpd.html", "mailto:pgsql-bugs@lists.postgresql.org",
     "ftp://ftp.postgresql.org/pub/"}

\* $(element).html() of a list item with one anchor per href
RECURSIVE AnchorsHtml(_)
AnchorsHtml(hrefs) ==
    IF hrefs = <<>> THEN ""
    ELSE " <a href=\"" \o Head(hrefs) \o "\">page</a>" \o AnchorsHtml(Tail(hrefs))

\* a cached release page with one list item
LinkedDoc(hrefs, version) ==
    [headings |-> <<"Release " \o version>>,
     paragraphs |-> <<"Release date: 2023-11-09">>,
     listitems |-> <<"See" \o AnchorsHtml(hrefs)>>]

InitNormalize ==
    /\ cache = [f \in {} |-> DocIndex]
    /\ releaseNotes = <<>>
    /\ summary = <<>>
    /\ processLog = "none"
    /\ pc = "idle"
    /\ cveData = <<>>
    /\ mem = <<>>
    /\ idx = 0
    /\ runStart = <<>>
    /\ delayed = {}
    /\ looked = {}
    /\ prior = "none"
    /\ \E hrefs \in UNION {[1..n -> HrefPool] : n \in 1..MaxLinks}, version \in {"16.1", "9.6.24"} :
          input = <<[hrefs |-> hrefs, version |-> version]>>
    /\ output = <<>>
    /\ ScrapeIdle

\* the body of the for..of loop of parseReleaseNotes for the page
NormalizePage ==
    /\ output = <<>>
    /\ output' = <<ParseDocument(LinkedDoc(input[1].hrefs, input[1].version))>>
    /\ UNCHANGED <<cache, files, processLog, cveRun, input, scraping>>

NextNormalize == NormalizePage

SpecNormalize == InitNormalize /\ [][NextNormalize]_vars

\* the href the Text Normalizer is to write: a target that starts with a
\* scheme or with "#" unchanged, any other under the docs root of the major
ExpectedHref(href, major) ==
    IF StartsWithScheme(href) \/ StartsWith(href, "#") THEN href
    ELSE "https://www.postgresql.org/docs/" \o major \o "/" \o href

\* the markdown of the list item with the expected targets
RECURSIVE ExpectedLinks(_, _)
ExpectedLinks(hrefs, major) ==
    IF hrefs = <<>> THEN ""
    ELSE " [page](" \o ExpectedHref(Head(hrefs), major) \o ")"
         \o ExpectedLinks(Tail(hrefs), major)

\* C27: the Text Normalizer rewrites every relative href of a fragment (one
\* that starts with neither a URL scheme nor "#") to an absolute URL under
\* https://www.postgresql.org/docs/<major-version>/ and leaves every other
\* href unchanged, a relative target that begins with the letters "http"
\* and an absolute target with a scheme other than http(s) included
C27_RelativeHrefsRewritten ==
    output # <<>> =>
        LET version == input[1].version
            major == SubSeq(version, 1, IndexOf(version, ".") - 1)
        IN  output[1].changes = <<"See" \o ExpectedLinks(input[1].hrefs, major)>>

(***************************************************************************)
(* Properties of the commands run one after another                        *)
(***************************************************************************)

\* the items of the security bucket the cve run read that carry no metrics
Bare(security) == {k \in 1..Len(security) : "metrics" \notin DOMAIN security[k]}

\* C28: in a cve run that meets no failure the lookups are those of the
\* security items that lack metrics: a lookup is sent only after the delay
\* for the same item, only for an item without metrics and never twice for
\* an item, and when the run has completed exactly the items that came
\* without metrics were delayed for and looked up, an item whose cve is
\* null included
C28_OneLookupPerBareItem ==
    /\ []((pc = "idle" /\ prior = "completed")
            => (looked = Bare(runStart) /\ delayed = looked))
    /\ [][(pc' = "fetch" /\ pc # "fetch")
            => /\ pc = "delay"
               /\ idx \in delayed
               /\ idx \notin looked
               /\ "metrics" \notin DOMAIN mem[1].security[idx]
               /\ looked' = looked \cup {idx}]_vars

\* a completed run has passed one item that carried metrics without a
\* lookup and has looked up one item whose cve is null
C28_Witness ==
    /\ pc = "idle"
    /\ prior = "completed"
    /\ \E k \in looked : runStart[k].cve = Null
    /\ \E k \in 1..Len(runStart) : k \notin looked

\* the fields the Enricher sets
EnrichedFields == {"metrics", "severity", "impactScore"}

\* the record after the step holds every field of the record before it,
\* unchanged unless it is one of fields, and no new field outside fields
FieldsKept(before, after, fields) ==
    /\ DOMAIN before \subseteq DOMAIN after
    /\ DOMAIN after \subseteq (DOMAIN before \cup fields)
    /\ \A f \in DOMAIN before \ fields : after[f] = before[f]

\* C29: a step of the cve command or the update-links command that changes
\* the summary file keeps versionDates and the number and places of the
\* records of every bucket; a cve step changes nothing but metrics, severity
\* and impactScore of security records, and update-links changes nothing but
\* title and description and adds or drops no field
C29_FrameOfCveAndLinks ==
    [][(/\ summary # <<>>
        /\ summary' # summary
        /\ ~(pc = "idle" /\ releaseNotes # <<>>
               /\ summary' = <<FormatOutcome[releaseNotes[1]]>>))
        => /\ summary' # <<>>
           /\ summary'[1].versionDates = summary[1].versionDates
           /\ \A bucket \in Categories :
                  Len(summary'[1][bucket]) = Len(summary[1][bucket])
           /\ IF pc # "idle"
              THEN /\ \A bucket \in Categories \ {"security"} :
                          summary'[1][bucket] = summary[1][bucket]
                   /\ \A k \in 1..Len(summary[1].security) :
                          FieldsKept(summary[1].security[k], summary'[1].security[k],
                                     EnrichedFields)
              ELSE \A bucket \in Categories : \A k \in 1..Len(summary[1][bucket]) :
                       /\ DOMAIN summary'[1][bucket][k] = DOMAIN summary[1][bucket][k]
                       /\ FieldsKept(summary[1][bucket][k], summary'[1][bucket][k],
                                     {"title", "description"})]_vars

\* the summary holds a security record that was enriched and a record whose
\* title update-links has rewritten
C29_Witness ==
    /\ summary # <<>>
    /\ \E k \in 1..Len(summary[1].security) :
           /\ "metrics" \in DOMAIN summary[1].security[k]
           /\ summary[1].security[k].severity = "HIGH"
    /\ \E bucket \in Categories : \E k \in 1..Len(summary[1][bucket]) :
           summary[1][bucket][k].title = "Improve [VACUUM] speed"

\* C30: after a format, and until the next cve run has touched the file,
\* no security record of the summary carries metrics, severity or
\* impactScore, whatever the summary file held before; a cve run that
\* follows and completes has looked every security item up
C30_FormatDropsEnrichment ==
    /\ []((prior = "none" /\ pc = "idle" /\ summary # <<>>)
            => \A k \in 1..Len(summary[1].security) :
                   DOMAIN summary[1].security[k] \cap EnrichedFields = {})
    /\ [][(prior = "none" /\ prior' = "completed")
            => looked' = 1..Len(runStart')]_vars

\* a format has run after a cve run that enriched: the last run looked its
\* items up and the file it left is replaced by one without enrichment
C30_Witness ==
    /\ prior = "none"
    /\ pc = "idle"
    /\ looked # {}
    /\ summary # <<>>
    /\ summary[1].security # <<>>
    /\ \A k \in 1..Len(summary[1].security) : "metrics" \notin DOMAIN summary[1].security[k]

====
